---- MODULE Spec2Model ----
(***************************************************************************)
(* A model of library/scripts/genvp.py, the generator of the Vulkan        *)
(* profiles library: the registry loader (VulkanRegistry), the profile      *)
(* loader and resolver (VulkanProfileCapabilities, VulkanProfile,           *)
(* VulkanProfiles) and the emitter (VulkanProfilesBuilder).                 *)
(*                                                                         *)
(* Python values are modelled as follows.                                  *)
(*   - a str that the code only compares for equality or uses as a key is  *)
(*     a TLA+ string; a str the code orders with <= (version numbers) is   *)
(*     a sequence of character codes, so that <= is Python's               *)
(*     lexicographic order;                                                *)
(*   - a dict is the sequence of its [key, val] items in insertion order;   *)
(*   - a JSON value is a record tagged with its Python type:                *)
(*     [k |-> "int" | "float" | "bool" | "str", v |-> str(value)],          *)
(*     [k |-> "list", items |-> <<...>>], [k |-> "dict", items |-> <<...>>]; *)
(*   - a call that may raise returns [err, at, val]: err is "none", or      *)
(*     "fatal" when Log.f raised, or "crash" when the interpreter raised    *)
(*     (AttributeError, IndexError, KeyError); at names the function.       *)
(***************************************************************************)
EXTENDS Integers, Sequences, FiniteSets, TLC

\* ------------------------------------------------------------------ bounds
\* The longest array a capability fragment gives for one member.
MaxListLen == 2

\* ----------------------------------------------------------- Python values
None == "None"

Ok(v) == [err |-> "none", at |-> "", val |-> v]
Raise(kind, where) == [err |-> kind, at |-> where, val |-> None]
Failed(r) == r.err # "none"
\* r, then f on its value unless r raised.
Then(r, f(_)) == IF Failed(r) THEN r ELSE f(r.val)

\* str: decimal digits of n, as character codes ('0' is 48).
RECURSIVE DecStr(_)
DecStr(n) == IF n < 10 THEN <<48 + n>> ELSE DecStr(n \div 10) \o <<48 + (n % 10)>>

Dot == <<46>>
IsDigit(c) == c >= 48 /\ c <= 57

\* Python's str <= str: lexicographic on the character codes, a proper
\* prefix being smaller.
RECURSIVE PyStrLe(_, _)
PyStrLe(a, b) ==
    IF a = <<>> THEN TRUE
    ELSE IF b = <<>> THEN FALSE
    ELSE IF Head(a) # Head(b) THEN Head(a) < Head(b)
    ELSE PyStrLe(Tail(a), Tail(b))

\* dict: items in insertion order.
DictHas(d, key) == \E i \in 1..Len(d) : d[i].key = key
DictIndex(d, key) == CHOOSE i \in 1..Len(d) : d[i].key = key
DictGet(d, key) == d[DictIndex(d, key)].val
\* A variant of DictSet that moves an existing key to the end.
DictSet_moves(d, key, val) ==
    Append(SelectSeq(d, LAMBDA item : item.key # key), [key |-> key, val |-> val])
\* d[key] = val: a new key is appended, an existing key keeps its position.
DictSet(d, key, val) ==
    IF DictHas(d, key)
    THEN [d EXCEPT ![DictIndex(d, key)] = [key |-> key, val |-> val]]
    ELSE Append(d, [key |-> key, val |-> val])
DictKeys(d) == [i \in 1..Len(d) |-> d[i].key]

\* JSON values.
Scalar(t, text) == [k |-> t, v |-> text]
List(items) == [k |-> "list", items |-> items]
Dict(items) == [k |-> "dict", items |-> items]
Item(key, val) == [key |-> key, val |-> val]
PyType(x) == x.k

VHas(d, key) == DictHas(d.items, key)
VGet(d, key) == DictGet(d.items, key)
VSet(d, key, val) == Dict(DictSet(d.items, key, val))

\* A key a fragment does not give (data.get(...) is None).
Absent == [k |-> "NoneType"]

IsAbsent(x) == x.k = "NoneType"

\* ------------------------------------------------- VulkanProfileCapabilities
\* mergeProfileCapData: the branches of a dict value, of a list value and of
\* any other value are MergeDictVal, MergeListVal and MergeScalarVal, the
\* loop is MergeItems.

\* A variant of MergeListVal that puts the incoming list first.
MergeListVal_prepends(dst, key, val) ==
    LET d1 == IF VHas(dst, key) THEN dst ELSE VSet(dst, key, List(<<>>))
        cur == VGet(d1, key)
    IN  IF PyType(cur) # "list"
        THEN Raise("crash", "mergeProfileCapData")
        ELSE Ok(VSet(d1, key, List(val.items \o cur.items)))

\* val is a list: dst[key] is created empty when absent, then extended.
\* Only a list has extend: on any other existing value Python raises
\* AttributeError.
MergeListVal(dst, key, val) ==
    LET d1 == IF VHas(dst, key) THEN dst ELSE VSet(dst, key, List(<<>>))
        cur == VGet(d1, key)
    IN  IF PyType(cur) # "list"
        THEN Raise("crash", "mergeProfileCapData")
        ELSE Ok(VSet(d1, key, List(cur.items \o val.items)))

\* A variant of MergeScalarVal that overwrites whatever the key holds.
MergeScalarVal_overwrites(dst, key, val) == Ok(VSet(dst, key, val))

\* val is anything else: a value of another type at the key is a conflict,
\* otherwise val overwrites.
MergeScalarVal(dst, key, val) ==
    IF VHas(dst, key) /\ PyType(VGet(dst, key)) # PyType(val)
    THEN Raise("fatal", "mergeProfileCapData")
    ELSE Ok(VSet(dst, key, val))

RECURSIVE mergeProfileCapData(_, _)
\* val is a dict: dst[key] is created empty when absent, then merged into.
MergeDictVal(dst, key, val) ==
    LET d1 == IF VHas(dst, key) THEN dst ELSE VSet(dst, key, Dict(<<>>))
    IN  Then(mergeProfileCapData(VGet(d1, key), val), LAMBDA m : Ok(VSet(d1, key, m)))

\* The loop "for key, val in src.items()" from item i on.
RECURSIVE MergeItems(_, _, _)
MergeItems(dst, items, i) ==
    IF i > Len(items) THEN Ok(dst)
    ELSE Then(IF PyType(items[i].val) = "dict"
              THEN MergeDictVal(dst, items[i].key, items[i].val)
              ELSE IF PyType(items[i].val) = "list"
              THEN MergeListVal(dst, items[i].key, items[i].val)
              ELSE MergeScalarVal(dst, items[i].key, items[i].val),
              LAMBDA d : MergeItems(d, items, i + 1))

mergeProfileCapData(dst, src) ==
    IF PyType(src) # PyType(dst) THEN Raise("fatal", "mergeProfileCapData")
    ELSE IF PyType(src) = "dict" THEN MergeItems(dst, src.items, 1)
    ELSE Raise("fatal", "mergeProfileCapData")

\* A variant of ClassifyExtension that records an extension in both maps.
ClassifyExtension_both(caps, extInfo, extName, specVer) ==
    IF extInfo.type \in {"instance", "device"}
    THEN Ok([caps EXCEPT !.extensions = DictSet(@, extName, specVer),
                         !.instanceExtensions = DictSet(@, extName, specVer),
                         !.deviceExtensions = DictSet(@, extName, specVer)])
    ELSE Raise("fatal", "mergeProfileExtensions")

\* A variant of ClassifyExtension that keeps the spec version an extension
\* already has.
ClassifyExtension_first(caps, extInfo, extName, specVer) ==
    IF DictHas(caps.extensions, extName) THEN Ok(caps)
    ELSE IF extInfo.type = "instance"
    THEN Ok([caps EXCEPT !.extensions = DictSet(@, extName, specVer),
                         !.instanceExtensions = DictSet(@, extName, specVer)])
    ELSE IF extInfo.type = "device"
    THEN Ok([caps EXCEPT !.extensions = DictSet(@, extName, specVer),
                         !.deviceExtensions = DictSet(@, extName, specVer)])
    ELSE Raise("fatal", "mergeProfileExtensions")

\* The kind and per-kind map an extension is recorded in.
ClassifyExtension(caps, extInfo, extName, specVer) ==
    LET c1 == [caps EXCEPT !.extensions = DictSet(@, extName, specVer)]
    IN  IF extInfo.type = "instance"
        THEN Ok([c1 EXCEPT !.instanceExtensions = DictSet(@, extName, specVer)])
        ELSE IF extInfo.type = "device"
        THEN Ok([c1 EXCEPT !.deviceExtensions = DictSet(@, extName, specVer)])
        ELSE Raise("fatal", "mergeProfileExtensions")

RECURSIVE MergeExtItems(_, _, _, _)
MergeExtItems(reg, caps, items, i) ==
    IF i > Len(items) THEN Ok(caps)
    ELSE Then(IF DictHas(reg.extensions, items[i].key)
              THEN ClassifyExtension(caps, DictGet(reg.extensions, items[i].key),
                                     items[i].key, items[i].val)
              ELSE Raise("fatal", "mergeProfileExtensions"),
              LAMBDA c : MergeExtItems(reg, c, items, i + 1))

mergeProfileExtensions(reg, caps, data) ==
    IF IsAbsent(data.extensions) THEN Ok(caps)
    ELSE IF PyType(data.extensions) # "dict"
    THEN Raise("crash", "mergeProfileExtensions")
    ELSE MergeExtItems(reg, caps, data.extensions.items, 1)

\* mergeProfileFeatures, mergeProfileProperties, mergeProfileFormats and
\* mergeProfileMemoryProperties: the same call on one section each.
MergeSection(caps, data, section) ==
    IF IsAbsent(data[section]) THEN Ok(caps)
    ELSE Then(mergeProfileCapData(caps[section], data[section]),
              LAMBDA m : Ok([caps EXCEPT ![section] = m]))

mergeProfileFeatures(caps, data) == MergeSection(caps, data, "features")
mergeProfileProperties(caps, data) == MergeSection(caps, data, "properties")
mergeProfileFormats(caps, data) == MergeSection(caps, data, "formats")
mergeProfileMemoryProperties(caps, data) == MergeSection(caps, data, "memoryProperties")

\* list.extend of the fragment's list. The fragments the model draws give a
\* list here; extend of a non-iterable raises TypeError.
mergeProfileQueueFamiliesProperties(caps, data) ==
    IF IsAbsent(data.queueFamiliesProperties) THEN Ok(caps)
    ELSE IF PyType(data.queueFamiliesProperties) # "list"
    THEN Raise("crash", "mergeProfileQueueFamiliesProperties")
    ELSE Ok([caps EXCEPT !.queueFamiliesProperties =
                            @ \o data.queueFamiliesProperties.items])

mergeCaps(reg, caps, data) ==
    LET F1(c) == mergeProfileFeatures(c, data)
        F2(c) == mergeProfileProperties(c, data)
        F3(c) == mergeProfileFormats(c, data)
        F4(c) == mergeProfileQueueFamiliesProperties(c, data)
        F5(c) == mergeProfileMemoryProperties(c, data)
    IN  Then(Then(Then(Then(Then(mergeProfileExtensions(reg, caps, data),
                                 F1), F2), F3), F4), F5)

EmptyCaps ==
    [extensions |-> <<>>, instanceExtensions |-> <<>>, deviceExtensions |-> <<>>,
     features |-> Dict(<<>>), properties |-> Dict(<<>>), formats |-> Dict(<<>>),
     queueFamiliesProperties |-> <<>>, memoryProperties |-> Dict(<<>>)]

\* The loop of __init__ over data['capabilities'] from entry i on; pool is
\* the file's capabilities map. The message for a missing fragment reads
\* data['name'], a key a profile object does not have: KeyError.
RECURSIVE MergeCapNames(_, _, _, _, _)
MergeCapNames(reg, caps, capNames, pool, i) ==
    IF i > Len(capNames) THEN Ok(caps)
    ELSE IF ~DictHas(pool, capNames[i])
    THEN Raise("crash", "VulkanProfileCapabilities")
    ELSE Then(mergeCaps(reg, caps, DictGet(pool, capNames[i])),
              LAMBDA c : MergeCapNames(reg, c, capNames, pool, i + 1))

VulkanProfileCapabilities(reg, data, pool) ==
    MergeCapNames(reg, EmptyCaps, data.capabilities, pool, 1)

\* ------------------------------------------------------------ VulkanProfile
\* definedByVersion of a struct no version requires.
NoVersion == <<>>

\* The number of leading characters of s that are digits.
RECURSIVE DigitRun(_)
DigitRun(s) == IF s # <<>> /\ IsDigit(Head(s)) THEN 1 + DigitRun(Tail(s)) ELSE 0

\* group(1) of re.search(r"^([1-9][0-9]*\.[0-9]+)[^0-9].*$", s), or <<>> when
\* there is no match: digits not starting with 0, a dot, digits, and then at
\* least one more character, which is not a digit.
MatchApiVersion(s) ==
    LET n1 == DigitRun(s)
        rest == SubSeq(s, n1 + 1, Len(s))
        n2 == IF rest # <<>> /\ Head(rest) = 46 THEN DigitRun(Tail(rest)) ELSE 0
    IN  IF n1 >= 1 /\ s[1] # 48 /\ n2 >= 1 /\ Len(s) > n1 + 1 + n2
        THEN SubSeq(s, 1, n1 + 1 + n2)
        ELSE <<>>

\* A variant of RequireExtensions that requires no extension.
RequireExtensions_none(reg, requirements, extNames, i) == Ok(requirements)
\* The loop over capabilities.extensions from name i on: a name the registry
\* has is appended, another one is fatal.
RECURSIVE RequireExtensions(_, _, _, _)
RequireExtensions(reg, requirements, extNames, i) ==
    IF i > Len(extNames) THEN Ok(requirements)
    ELSE IF DictHas(reg.extensions, extNames[i])
    THEN RequireExtensions(reg, Append(requirements, extNames[i]), extNames, i + 1)
    ELSE Raise("fatal", "collectCompileTimeRequirements")

\* The requirements list of a profile with this api-version and these merged
\* capabilities.
collectCompileTimeRequirements(reg, apiVersion, caps) ==
    LET versionNumber == MatchApiVersion(apiVersion)
    IN  IF versionNumber = <<>>
        THEN Raise("fatal", "collectCompileTimeRequirements")
        ELSE IF ~DictHas(reg.versions, versionNumber)
        THEN Raise("fatal", "collectCompileTimeRequirements")
        ELSE RequireExtensions(reg, <<DictGet(reg.versions, versionNumber).name>>,
                               DictKeys(caps.extensions), 1)

\* depFound of validateStructDependency for a registered struct.
DepFound(structDef, apiVersion, caps) ==
    \/ /\ structDef.definedByVersion # NoVersion
       /\ PyStrLe(structDef.definedByVersion, apiVersion)
    \/ \E i \in 1..Len(structDef.definedByExtensions) :
           DictHas(caps.extensions, structDef.definedByExtensions[i])

validateStructDependency(reg, structName, apiVersion, caps) ==
    IF DictHas(reg.structs, structName)
    THEN IF DepFound(DictGet(reg.structs, structName), apiVersion, caps)
         THEN Ok(TRUE)
         ELSE Raise("fatal", "validateStructDependency")
    ELSE Raise("fatal", "validateStructDependency")

\* The struct names validateStructDependencies visits, in its order. A queue
\* family record is a dict in every fragment the model draws.
RECURSIVE QueueFamilyStructs(_)
QueueFamilyStructs(records) ==
    IF records = <<>> THEN <<>>
    ELSE DictKeys(Head(records).items) \o QueueFamilyStructs(Tail(records))

NamedStructs(caps) ==
    DictKeys(caps.features.items) \o DictKeys(caps.properties.items)
        \o QueueFamilyStructs(caps.queueFamiliesProperties)
        \o DictKeys(caps.memoryProperties.items)

RECURSIVE ValidateFrom(_, _, _, _, _)
ValidateFrom(reg, names, apiVersion, caps, i) ==
    IF i > Len(names) THEN Ok(TRUE)
    ELSE Then(validateStructDependency(reg, names[i], apiVersion, caps),
              LAMBDA found : ValidateFrom(reg, names, apiVersion, caps, i + 1))

validateStructDependencies(reg, apiVersion, caps) ==
    ValidateFrom(reg, NamedStructs(caps), apiVersion, caps, 1)

\* VulkanProfile.__init__: the resolved profile, or what it raised.
VulkanProfile(reg, name, data, pool) ==
    Then(VulkanProfileCapabilities(reg, data, pool), LAMBDA capabilities :
    Then(collectCompileTimeRequirements(reg, data.apiVersion, capabilities),
         LAMBDA requirements :
    Then(validateStructDependencies(reg, data.apiVersion, capabilities),
         LAMBDA valid :
    Ok([name |-> name,
        version |-> data.version,
        apiVersion |-> data.apiVersion,
        fallback |-> data.fallback,
        requirements |-> requirements,
        capabilities |-> capabilities]))))

\* ---------------------------------------------------- VulkanProfilesBuilder
\* Generated text is modelled by what it depends on: a predicate or an
\* assignment by its format and operands, a table by its entries. An operand
\* is the variable's name parts and member path with an optional index
\* (-1: none), e.g. <<"device", "VkPhysicalDeviceFeatures2", "features",
\* "geometryShader">> for devicePhysicalDeviceFeatures2.features.geometryShader.
Operand(path, idx) == [path |-> path, idx |-> idx]
NoIndex == 0 - 1

\* A loop "for x in xs: gen += F(x)" in which F may raise: what the first
\* failing iteration raised, or the sequence of the iterations' results.
MapRaise(F(_), xs) ==
    LET rs == [i \in 1..Len(xs) |-> F(xs[i])]
        bad == {i \in 1..Len(xs) : Failed(rs[i])}
    IN  IF bad # {}
        THEN rs[CHOOSE i \in bad : \A j \in bad : i <= j]
        ELSE Ok([i \in 1..Len(xs) |-> rs[i].val])

RECURSIVE Flatten(_)
Flatten(ss) == IF ss = <<>> THEN <<>> ELSE Head(ss) \o Flatten(Tail(ss))

\* What "for value in values" of gen_listValue visits: the elements of a
\* list, the keys of a dict, the characters of a str.
Tokens(values) ==
    IF PyType(values) = "list" THEN values.items
    ELSE IF PyType(values) = "dict"
    THEN [i \in 1..Len(values.items) |-> [k |-> "key", v |-> values.items[i].key]]
    ELSE <<[k |-> "chars", v |-> values.v]>>

\* gen_listValue: the tokens joined by ' | ' (isEnum) or by ', ' in braces;
\* an empty or missing enum list is the literal 0. len() of a number or a
\* bool raises TypeError.
gen_listValue(values, isEnum) ==
    IF PyType(values) \in {"int", "float", "bool"}
    THEN Raise("crash", "gen_listValue")
    ELSE LET toks == IF IsAbsent(values) THEN <<>> ELSE Tokens(values)
         IN  Ok([isEnum |-> isEnum,
                 tokens |-> IF Len(toks) > 0 THEN toks
                            ELSE IF isEnum THEN <<Scalar("int", "0")>> ELSE <<>>])

\* A variant of ComparePredFmt with the formats of max and min exchanged.
ComparePredFmt_exchanged(limittype) ==
    IF limittype = "bitmask" THEN [isList |-> FALSE, fmts |-> <<"(({0} & {1}) == {1})">>]
    ELSE IF limittype = "max" THEN [isList |-> FALSE, fmts |-> <<"({0} <= {1})">>]
    ELSE IF limittype = "min" THEN [isList |-> FALSE, fmts |-> <<"({0} >= {1})">>]
    ELSE IF limittype = "range"
    THEN [isList |-> TRUE, fmts |-> <<"({0} <= {1})", "({0} >= {1})">>]
    ELSE IF limittype \in {None, "noauto", "struct"}
    THEN [isList |-> FALSE, fmts |-> <<"({0} == {1})">>]
    ELSE [isList |-> FALSE, fmts |-> <<>>]

\* comparePredFmt of gen_compareStructVar for a limittype: one format, or
\* for range the list of two; fmts is empty for an unsupported limittype.
ComparePredFmt(limittype) ==
    IF limittype = "bitmask" THEN [isList |-> FALSE, fmts |-> <<"(({0} & {1}) == {1})">>]
    ELSE IF limittype = "max" THEN [isList |-> FALSE, fmts |-> <<"({0} >= {1})">>]
    ELSE IF limittype = "min" THEN [isList |-> FALSE, fmts |-> <<"({0} <= {1})">>]
    ELSE IF limittype = "range"
    THEN [isList |-> TRUE, fmts |-> <<"({0} <= {1})", "({0} >= {1})">>]
    ELSE IF limittype \in {None, "noauto", "struct"}
    THEN [isList |-> FALSE, fmts |-> <<"({0} == {1})">>]
    ELSE [isList |-> FALSE, fmts |-> <<>>]

Pred(fmt, predFmt, dev, prof) ==
    [fmt |-> fmt, pred |-> predFmt, dev |-> dev, prof |-> prof]

\* One iteration of the loop of gen_compareStructVar over a list value of an
\* isArray member: comparePredFmt[i] of a range raises IndexError from the
\* third element on.
CompareElement(fmt, f, limittype, deviceVar, profileVar, member, i) ==
    IF limittype = "range"
    THEN IF i + 1 > Len(f.fmts)
         THEN Raise("crash", "gen_compareStructVar")
         ELSE Ok(<<Pred(fmt, f.fmts[i + 1], Operand(Append(deviceVar, member), i),
                        Operand(Append(profileVar, member), i))>>)
    ELSE Ok(<<Pred(fmt, f.fmts[1], Operand(Append(deviceVar, member), i),
                   Operand(Append(profileVar, member), i))>>)

\* The comparison of a member as a whole: a list has no format method, so a
\* range raises AttributeError here.
CompareWhole(fmt, f, deviceVar, profileVar, member) ==
    IF f.isList
    THEN Raise("crash", "gen_compareStructVar")
    ELSE Ok(<<Pred(fmt, f.fmts[1], Operand(Append(deviceVar, member), NoIndex),
                   Operand(Append(profileVar, member), NoIndex))>>)

RECURSIVE gen_compareStructVar(_, _, _, _, _, _)
\* The body of the loop of gen_compareStructVar for one (member, value).
CompareMember(reg, fmt, structDef, deviceVar, profileVar, item) ==
    LET member == item.key
        value == item.val
    IN  IF ~DictHas(structDef.members, member)
        THEN Raise("fatal", "gen_compareStructVar")
        ELSE
        LET memberInfo == DictGet(structDef.members, member)
            limittype == memberInfo.limittype
            f == ComparePredFmt(limittype)
        IN  IF limittype = "IGNORE" THEN Ok(<<>>)
            ELSE IF f.fmts = <<>> THEN Raise("fatal", "gen_compareStructVar")
            ELSE IF PyType(value) = "dict"
            THEN IF DictHas(reg.structs, memberInfo.type)
                 THEN gen_compareStructVar(reg, fmt, DictGet(reg.structs, memberInfo.type),
                                           Append(deviceVar, member),
                                           Append(profileVar, member), value)
                 ELSE Raise("fatal", "gen_compareStructVar")
            ELSE IF PyType(value) = "list"
            THEN IF memberInfo.isArray
                 THEN LET E(i) == CompareElement(fmt, f, limittype, deviceVar,
                                                 profileVar, member, i)
                      IN  Then(MapRaise(E, [i \in 1..Len(value.items) |-> i - 1]),
                               LAMBDA gen : Ok(Flatten(gen)))
                 ELSE CompareWhole(fmt, f, deviceVar, profileVar, member)
            ELSE CompareWhole(fmt, f, deviceVar, profileVar, member)

\* The predicates gen_compareStructVar emits, in order. values.items() of a
\* value that is no dict raises AttributeError.
gen_compareStructVar(reg, fmt, structDef, deviceVar, profileVar, values) ==
    IF PyType(values) # "dict"
    THEN Raise("crash", "gen_compareStructVar")
    ELSE LET M(item) == CompareMember(reg, fmt, structDef, deviceVar, profileVar, item)
         IN  Then(MapRaise(M, values.items), LAMBDA gen : Ok(Flatten(gen)))

\* The right-hand sides gen_assignStructVar writes.
Rhs(kind, isEnum, tokens) == [kind |-> kind, isEnum |-> isEnum, tokens |-> tokens]
Assign(lhs, rhs) == [lhs |-> lhs, rhs |-> rhs]

\* A list value of a member that is no array: isEnum is read off value[0],
\* which raises IndexError on an empty list.
AssignList(var, member, value) ==
    IF Len(value.items) = 0
    THEN Raise("crash", "gen_assignStructVar")
    ELSE Then(gen_listValue(value, PyType(value.items[1]) = "str"),
              LAMBDA l : Ok(<<Assign(Operand(Append(var, member), NoIndex),
                                     Rhs("list", l.isEnum, l.tokens))>>))

RECURSIVE gen_assignStructVar(_, _, _, _)
\* A variant of AssignMember that passes over a member the struct does not
\* have.
AssignMember_skips(reg, structDef, var, item) ==
    IF ~DictHas(structDef.members, item.key) THEN Ok(<<>>)
    ELSE IF PyType(item.val) = "dict"
    THEN IF DictHas(reg.structs, DictGet(structDef.members, item.key).type)
         THEN gen_assignStructVar(reg, DictGet(reg.structs,
                                               DictGet(structDef.members, item.key).type),
                                  Append(var, item.key), item.val)
         ELSE Ok(<<>>)
    ELSE Ok(<<Assign(Operand(Append(var, item.key), NoIndex),
                     Rhs("literal", FALSE, <<item.val>>))>>)
\* The body of the loop of gen_assignStructVar for one (member, value).
AssignMember(reg, structDef, var, item) ==
    LET member == item.key
        value == item.val
    IN  IF ~DictHas(structDef.members, member)
        THEN Raise("fatal", "gen_assignStructVar")
        ELSE
        LET memberInfo == DictGet(structDef.members, member)
        IN  IF PyType(value) = "dict"
            THEN IF DictHas(reg.structs, memberInfo.type)
                 THEN gen_assignStructVar(reg, DictGet(reg.structs, memberInfo.type),
                                          Append(var, member), value)
                 ELSE Raise("fatal", "gen_assignStructVar")
            ELSE IF PyType(value) = "list"
            THEN IF memberInfo.isArray
                 THEN Ok([i \in 1..Len(value.items) |->
                             Assign(Operand(Append(var, member), i - 1),
                                    Rhs("literal", FALSE, <<value.items[i]>>))])
                 ELSE AssignList(var, member, value)
            ELSE IF PyType(value) = "bool"
            THEN Ok(<<Assign(Operand(Append(var, member), NoIndex),
                             Rhs("vkbool", FALSE, <<value>>))>>)
            ELSE Ok(<<Assign(Operand(Append(var, member), NoIndex),
                             Rhs("literal", FALSE, <<value>>))>>)

\* The assignments gen_assignStructVar emits, in order.
gen_assignStructVar(reg, structDef, var, values) ==
    IF PyType(values) # "dict"
    THEN Raise("crash", "gen_assignStructVar")
    ELSE LET M(item) == AssignMember(reg, structDef, var, item)
         IN  Then(MapRaise(M, values.items), LAMBDA gen : Ok(Flatten(gen)))

\* Python's truth value of a merged dict or list.
Truthy(x) == Len(x) > 0

\* name.upper(), kept apart from name.
Upper(name) == <<"upper", name>>

\* apiVersion.replace(".", ", ") on character codes.
RECURSIVE ReplaceDots(_)
ReplaceDots(s) ==
    IF s = <<>> THEN <<>>
    ELSE (IF Head(s) = 46 THEN <<44, 32>> ELSE <<Head(s)>>) \o ReplaceDots(Tail(s))

\* A line of the profile definitions: a directive, what follows it, and
\* whether the line ends with " && \" and is continued.
Line(directive, operand, continued) ==
    [directive |-> directive, operand |-> operand, continued |-> continued]

\* "Add prerequisites": '#if ' before the first requirement and '    '
\* before the others, 'defined(requirement)', and ' && \' after all but the
\* last.
ProfileGuard(requirements) ==
    [i \in 1..Len(requirements) |->
        Line(IF i = 1 THEN "#if" ELSE "", <<"defined", requirements[i]>>,
             i < Len(requirements))]

ProfileDefines(name, profile) ==
    <<Line("#define", <<name, "", "1">>, FALSE),
      Line("#define", <<Upper(name), "_NAME", name>>, FALSE),
      Line("#define", <<Upper(name), "_SPEC_VERSION", profile.version>>, FALSE),
      Line("#define", <<Upper(name), "_MIN_API_VERSION",
                        <<"VK_MAKE_VERSION", ReplaceDots(profile.apiVersion)>>>>, FALSE)>>

\* A variant of ProfileEndif that never closes the guard.
ProfileEndif_never(requirements) == <<>>
ProfileEndif(requirements) ==
    IF Truthy(requirements) THEN <<Line("#endif", <<>>, FALSE)>> ELSE <<>>

\* gen_profileDefs: per profile, in the order of the profiles map, the lines
\* of the #if over the requirements, of the four #define and of the #endif.
gen_profileDefs(profs) ==
    [i \in 1..Len(profs) |->
        ProfileGuard(profs[i].val.requirements)
        \o ProfileDefines(profs[i].key, profs[i].val)
        \o ProfileEndif(profs[i].val.requirements)]

\* VulkanProfile.gen_extensionData: the array, or nothing when the profile
\* has no extension of this type.
gen_extensionData(reg, profile, type) ==
    LET exts == profile.capabilities.extensions
        Entry(i) == [name |-> DictGet(reg.extensions, exts[i].key).upperCaseName,
                     specVersion |-> exts[i].val]
        idx == SelectSeq([i \in 1..Len(exts) |-> i],
                         LAMBDA i : DictGet(reg.extensions, exts[i].key).type = type)
    IN  [emitted |-> Len(idx) > 0,
         entries |-> [j \in 1..Len(idx) |-> Entry(idx[j])]]

\* VulkanProfile.generatePrivateData
generatePrivateData(reg, profile) ==
    [name |-> profile.name,
     instance |-> gen_extensionData(reg, profile, "instance"),
     device |-> gen_extensionData(reg, profile, "device")]

gen_privateData(reg, profs) ==
    [i \in 1..Len(profs) |-> generatePrivateData(reg, profs[i].val)]

\* gen_profileDesc: per profile whether the _vpProfiles entry points at the
\* profile's extension arrays.
gen_profileDesc(profs) ==
    [i \in 1..Len(profs) |->
        [name |-> profs[i].key,
         instanceExtensions |-> Truthy(profs[i].val.capabilities.instanceExtensions),
         deviceExtensions |-> Truthy(profs[i].val.capabilities.deviceExtensions)]]

gen_privateImpl(reg, profs) ==
    [privateData |-> gen_privateData(reg, profs),
     profileDesc |-> gen_profileDesc(profs)]

\* value.get(key) of a dict value.
PyGet(d, key) == IF VHas(d, key) THEN VGet(d, key) ELSE Absent

\* A variant of StructPropEntry that does not test what the struct extends.
StructPropEntry_unchecked(reg, structName0, shortName, root, area) ==
    LET structName == IF structName0 = shortName THEN root ELSE structName0
    IN  IF ~DictHas(reg.structs, structName)
        THEN Raise("fatal", "gen_structPropLists")
        ELSE LET structDef == DictGet(reg.structs, structName)
             IN  IF structDef.sType = None
                 THEN Raise("fatal", "gen_structPropLists")
                 ELSE Ok([sType |-> structDef.sType, area |-> area])
\* One entry of gen_structPropLists: shortName is the struct the profile
\* files use for the wrapped root.
StructPropEntry(reg, structName0, shortName, root, area) ==
    LET structName == IF structName0 = shortName THEN root ELSE structName0
    IN  IF ~DictHas(reg.structs, structName)
        THEN Raise("fatal", "gen_structPropLists")
        ELSE LET structDef == DictGet(reg.structs, structName)
             IN  IF structDef.sType = None
                 THEN Raise("fatal", "gen_structPropLists")
                 ELSE IF ~(\E i \in 1..Len(structDef.extends) : structDef.extends[i] = root)
                         /\ structDef.name # root
                 THEN Raise("fatal", "gen_structPropLists")
                 ELSE Ok([sType |-> structDef.sType, area |-> area])

\* gen_structPropLists: the _STRUCTURE_PROPERTIES table of every profile.
gen_structPropLists(reg, profs) ==
    LET P(p) ==
            LET F(n) == StructPropEntry(reg, n, "VkPhysicalDeviceFeatures",
                                        "VkPhysicalDeviceFeatures2", "VP_STRUCTURE_FEATURES")
                Q(n) == StructPropEntry(reg, n, "VkPhysicalDeviceProperties",
                                        "VkPhysicalDeviceProperties2", "VP_STRUCTURE_PROPERTIES")
            IN  Then(MapRaise(F, DictKeys(p.val.capabilities.features.items)),
                     LAMBDA f :
                Then(MapRaise(Q, DictKeys(p.val.capabilities.properties.items)),
                     LAMBDA q :
                Ok([name |-> p.key, entries |-> f \o q])))
    IN  MapRaise(P, profs)

\* One record of a _FORMATS table.
FormatEntry(item) ==
    LET props == item.val
    IN  IF PyType(props) \in {"int", "float", "bool"}
        THEN Raise("crash", "gen_formatLists")
        ELSE IF PyType(props) = "str"
        THEN Raise("fatal", "gen_formatLists")
        ELSE IF PyType(props) = "list"
        THEN IF Len(props.items) > 0
             THEN Raise("fatal", "gen_formatLists")
             ELSE Raise("crash", "gen_formatLists")
        ELSE IF \E i \in 1..Len(props.items) : props.items[i].key # "VkFormatProperties"
        THEN Raise("fatal", "gen_formatLists")
        ELSE IF ~VHas(props, "VkFormatProperties")
        THEN Raise("crash", "gen_formatLists")
        ELSE
        LET formatProps == VGet(props, "VkFormatProperties")
        IN  IF PyType(formatProps) # "dict"
            THEN Raise("crash", "gen_formatLists")
            ELSE
            Then(gen_listValue(PyGet(formatProps, "linearTilingFeatures"), TRUE),
                 LAMBDA l :
            Then(gen_listValue(PyGet(formatProps, "optimalTilingFeatures"), TRUE),
                 LAMBDA o :
            Then(gen_listValue(PyGet(formatProps, "bufferFeatures"), TRUE),
                 LAMBDA b :
            Ok([format |-> item.key,
                linearTilingFeatures |-> l,
                optimalTilingFeatures |-> o,
                bufferFeatures |-> b]))))

\* The profiles gen_formatLists and the functions over _FORMATS emit for.
WithFormats(profs) == SelectSeq(profs, LAMBDA p : Truthy(p.val.capabilities.formats.items))

\* gen_formatLists: the _FORMATS table of every profile that has formats.
gen_formatLists(profs) ==
    LET P(p) == Then(MapRaise(FormatEntry, p.val.capabilities.formats.items),
                     LAMBDA entries : Ok([name |-> p.key, entries |-> entries]))
    IN  MapRaise(P, WithFormats(profs))

\* members[key] of gen_queueFamilyLists: KeyError or TypeError when members
\* is no dict or lacks the key.
Subscript(members, key) ==
    IF PyType(members) = "dict" /\ VHas(members, key)
    THEN Ok(VGet(members, key))
    ELSE Raise("crash", "gen_queueFamilyLists")

\* One initializer of a _QUEUE_FAMILY_PROPERTIES table.
QueueFamilyEntry(item) ==
    IF item.key # "VkQueueFamilyProperties"
    THEN Raise("fatal", "gen_queueFamilyLists")
    ELSE
    LET members == item.val
    IN  Then(Subscript(members, "queueFlags"), LAMBDA flags :
        Then(gen_listValue(flags, TRUE), LAMBDA queueFlags :
        Then(Subscript(members, "queueCount"), LAMBDA queueCount :
        Then(Subscript(members, "timestampValidBits"), LAMBDA timestampValidBits :
        Then(Subscript(members, "minImageTransferGranularity"), LAMBDA granularity :
        Then(Subscript(granularity, "width"), LAMBDA width :
        Then(Subscript(granularity, "height"), LAMBDA height :
        Then(Subscript(granularity, "depth"), LAMBDA depth :
        Ok([queueFlags |-> queueFlags,
            queueCount |-> queueCount,
            timestampValidBits |-> timestampValidBits,
            minImageTransferGranularity |-> <<width, height, depth>>])))))))))

QueueFamilyData(data) ==
    IF PyType(data) # "dict"
    THEN Raise("crash", "gen_queueFamilyLists")
    ELSE MapRaise(QueueFamilyEntry, data.items)

WithQueueFamilies(profs) ==
    SelectSeq(profs, LAMBDA p : Truthy(p.val.capabilities.queueFamiliesProperties))

\* gen_queueFamilyLists: the _QUEUE_FAMILY_PROPERTIES table of every profile
\* that has queue families.
gen_queueFamilyLists(profs) ==
    LET P(p) == Then(MapRaise(QueueFamilyData, p.val.capabilities.queueFamiliesProperties),
                     LAMBDA entries : Ok([name |-> p.key, entries |-> Flatten(entries)]))
    IN  MapRaise(P, WithQueueFamilies(profs))

\* A variable of the generated code that is not set (Python's None).
NoVar == <<>>

\* The loop of gen_vpGetDeviceProfileSupport over the feature (property)
\* structs from item i on: the declarations with their pNext links, the
\* comparisons, and the heads of the device-side and profile-side chains.
RECURSIVE SupportLoop(_, _, _, _, _, _, _, _, _)
SupportLoop(reg, fmt, items, i, shortName, root, wrapped, acc, rootSType) ==
    IF i > Len(items) THEN Ok(acc)
    ELSE IF ~DictHas(reg.structs, items[i].key)
    THEN Raise("fatal", "gen_vpGetDeviceProfileSupport")
    ELSE
    LET structDef == DictGet(reg.structs, items[i].key)
        isShort == items[i].key = shortName
        structName == IF isShort THEN root ELSE items[i].key
        varAccessSuffix == IF isShort THEN <<wrapped>> ELSE <<>>
        sType == IF isShort THEN rootSType ELSE structDef.sType
        deviceVarName == <<"device", structName>>
        profileVarName == <<"profile", structName>>
        deviceDef == [type |-> structName, var |-> deviceVarName, sType |-> sType,
                      pNext |-> IF structName # root THEN acc.pNextDevice ELSE NoVar]
        profileDef == [type |-> structName, var |-> profileVarName, sType |-> sType,
                       pNext |-> acc.pNextProfile]
    IN  Then(gen_compareStructVar(reg, fmt, structDef,
                                  deviceVarName \o varAccessSuffix,
                                  profileVarName \o varAccessSuffix, items[i].val),
             LAMBDA check :
             SupportLoop(reg, fmt, items, i + 1, shortName, root, wrapped,
                         [defs |-> acc.defs \o <<deviceDef, profileDef>>,
                          checks |-> acc.checks \o check,
                          pNextDevice |-> IF structName # root THEN deviceVarName
                                          ELSE acc.pNextDevice,
                          pNextProfile |-> profileVarName],
                         rootSType))

\* The block of gen_vpGetDeviceProfileSupport that checks a profile's
\* features (properties): None when the profile has none.
SupportBlock(reg, fmt, values, shortName, root, wrapped, rootSType) ==
    IF ~Truthy(values.items) THEN Ok([emitted |-> FALSE])
    ELSE
    Then(SupportLoop(reg, fmt, values.items, 1, shortName, root, wrapped,
                     [defs |-> <<>>, checks |-> <<>>,
                      pNextDevice |-> NoVar, pNextProfile |-> NoVar],
                     rootSType),
         LAMBDA gen :
         Ok([emitted |-> TRUE,
             defs |-> gen.defs,
             declaresRoot |-> ~VHas(values, shortName) /\ ~VHas(values, root),
             rootPNext |-> gen.pNextDevice,
             queried |-> <<"device", root>>,
             profileArg |-> gen.pNextProfile,
             checks |-> gen.checks]))

FeaturesFmt == "        featuresSupported = featuresSupported && {0};\n"
PropertiesFmt == "        propertiesSupported = propertiesSupported && {0};\n"

\* gen_vpGetDeviceProfileSupport: the branch of every profile.
gen_vpGetDeviceProfileSupport(reg, profs) ==
    LET P(p) ==
            LET caps == p.val.capabilities
            IN  Then(SupportBlock(reg, FeaturesFmt, caps.features,
                                  "VkPhysicalDeviceFeatures", "VkPhysicalDeviceFeatures2",
                                  "features", "VK_STRUCTURE_TYPE_PHYSICAL_DEVICE_FEATURES_2"),
                     LAMBDA f :
                Then(SupportBlock(reg, PropertiesFmt, caps.properties,
                                  "VkPhysicalDeviceProperties", "VkPhysicalDeviceProperties2",
                                  "properties", "VK_STRUCTURE_TYPE_PHYSICAL_DEVICE_PROPERTIES_2"),
                     LAMBDA q :
                Ok([name |-> p.key,
                    deviceExtensions |-> Truthy(caps.deviceExtensions),
                    features |-> f,
                    properties |-> q,
                    queueFamilies |-> Truthy(caps.queueFamiliesProperties),
                    memoryTypes |-> Truthy(caps.memoryProperties.items)])))
    IN  MapRaise(P, profs)

\* The loop of gen_vpCreateDevice over the feature structs from item i on.
RECURSIVE CreateDeviceLoop(_, _, _, _, _)
CreateDeviceLoop(reg, items, i, pNext, defs) ==
    IF i > Len(items) THEN Ok([defs |-> defs, pNext |-> pNext])
    ELSE IF ~DictHas(reg.structs, items[i].key)
    THEN Raise("fatal", "gen_vpCreateDevice")
    ELSE
    LET isShort == items[i].key = "VkPhysicalDeviceFeatures"
        structName == IF isShort THEN "VkPhysicalDeviceFeatures2" ELSE items[i].key
        sType == IF isShort THEN "VK_STRUCTURE_TYPE_PHYSICAL_DEVICE_FEATURES_2"
                 ELSE DictGet(reg.structs, items[i].key).sType
        profileVarName == <<"profile", structName>>
    IN  CreateDeviceLoop(reg, items, i + 1, profileVarName,
                         Append(defs, [type |-> structName, var |-> profileVarName,
                                       sType |-> sType, pNext |-> pNext]))

\* gen_vpCreateDevice: the branch of every profile; it reads the profile's
\* _deviceExtensions array whatever the profile's extensions are.
gen_vpCreateDevice(reg, profs) ==
    LET P(p) ==
            LET features == p.val.capabilities.features
            IN  Then(CreateDeviceLoop(reg, features.items, 1, NoVar, <<>>),
                     LAMBDA gen :
                     Ok([name |-> p.key,
                         deviceExtensions |-> TRUE,
                         defs |-> gen.defs,
                         profileArg |-> gen.pNext,
                         enabledFeatures |-> ~VHas(features, "VkPhysicalDeviceFeatures")
                                             /\ ~VHas(features, "VkPhysicalDeviceFeatures2")]))
    IN  MapRaise(P, profs)

\* One case block of gen_vpGetProfileStructures.
StructureCase(reg, item, shortName, rootSType, var) ==
    IF ~DictHas(reg.structs, item.key)
    THEN Raise("fatal", "gen_vpGetProfileStructures")
    ELSE
    LET structDef == DictGet(reg.structs, item.key)
    IN  IF item.key # shortName /\ structDef.sType = None
        THEN Raise("fatal", "gen_vpGetProfileStructures")
        ELSE Then(gen_assignStructVar(reg, structDef, <<var>>, item.val),
                  LAMBDA assigns :
                  Ok([label |-> IF item.key = shortName THEN rootSType
                                ELSE structDef.sType,
                      type |-> item.key,
                      assigns |-> assigns]))

\* gen_vpGetProfileStructures: the switch of every profile.
gen_vpGetProfileStructures(reg, profs) ==
    LET P(p) ==
            LET F(item) == StructureCase(reg, item, "VkPhysicalDeviceFeatures",
                               "VK_STRUCTURE_TYPE_PHYSICAL_DEVICE_FEATURES_2", "features")
                Q(item) == StructureCase(reg, item, "VkPhysicalDeviceProperties",
                               "VK_STRUCTURE_TYPE_PHYSICAL_DEVICE_PROPERTIES_2", "props")
            IN  Then(MapRaise(F, p.val.capabilities.features.items), LAMBDA f :
                Then(MapRaise(Q, p.val.capabilities.properties.items), LAMBDA q :
                Ok([name |-> p.key, cases |-> f \o q])))
    IN  MapRaise(P, profs)

Names(profs) == [i \in 1..Len(profs) |-> profs[i].key]

\* gen_vpGetProfiles
gen_vpGetProfiles(profs) == Names(profs)

\* gen_vpGetProfileFallbacks: a branch per profile that has fallbacks.
gen_vpGetProfileFallbacks(profs) ==
    LET with == SelectSeq(profs, LAMBDA p : Truthy(p.val.fallback))
    IN  [i \in 1..Len(with) |-> [name |-> with[i].key, fallbacks |-> with[i].val.fallback]]

\* gen_vpGetProfileStructureProperties: a branch per profile that has
\* features or properties.
gen_vpGetProfileStructureProperties(profs) ==
    Names(SelectSeq(profs, LAMBDA p : Truthy(p.val.capabilities.features.items)
                                      \/ Truthy(p.val.capabilities.properties.items)))

gen_vpGetProfileFormats(profs) == Names(WithFormats(profs))
gen_vpGetProfileFormatProperties(profs) == Names(WithFormats(profs))
gen_vpGetProfileQueueFamilies(profs) == Names(WithQueueFamilies(profs))

\* gen_publicImpl: the generated functions in the order they are written.
gen_publicImpl(reg, profs) ==
    Then(gen_vpGetDeviceProfileSupport(reg, profs), LAMBDA s :
    Then(gen_vpCreateDevice(reg, profs), LAMBDA c :
    Then(gen_vpGetProfileStructures(reg, profs), LAMBDA g :
    Ok([vpGetProfiles |-> gen_vpGetProfiles(profs),
        vpGetProfileFallbacks |-> gen_vpGetProfileFallbacks(profs),
        vpGetDeviceProfileSupport |-> s,
        vpCreateDevice |-> c,
        vpGetProfileStructures |-> g,
        vpGetProfileStructureProperties |-> gen_vpGetProfileStructureProperties(profs),
        vpGetProfileFormats |-> gen_vpGetProfileFormats(profs),
        vpGetProfileFormatProperties |-> gen_vpGetProfileFormatProperties(profs),
        vpGetProfileQueueFamilies |-> gen_vpGetProfileQueueFamilies(profs)]))))

\* ------------------------------------------------------------ the registry
\* Version numbers are character codes, as the loader orders them with <=.
VersionNumber(major, minor) == DecStr(major) \o Dot \o DecStr(minor)
ApiVersion(major, minor, patch) ==
    DecStr(major) \o Dot \o DecStr(minor) \o Dot \o DecStr(patch)

\* ------------------------------------------------------ loading the registry
\* The registry document as etree.parse returns it, reduced to what the
\* loader reads: the feature elements, the extension elements and the type
\* elements of category struct, each list in document order.
\*   - a "require/enum" element is [stem, suffix, value, alias]: its name is
\*     stem followed by suffix, value and alias are None when the attribute
\*     is missing;
\*   - a "require/type" element is its name;
\*   - a member element is [name, type, limittype, tail, values]: tail is
\*     the text after the name element as character codes ('[' is 91), empty
\*     when there is none;
\*   - structextends is the attribute split at the commas, empty when the
\*     attribute is missing;
\*   - the value of a name enum is given without its quotes.
EnumValue(stem, suffix, value) ==
    [stem |-> stem, suffix |-> suffix, value |-> value, alias |-> None]
EnumAlias(name, alias) ==
    [stem |-> name, suffix |-> "", value |-> None, alias |-> alias]
FeatureXml(name, number, enums, types) ==
    [name |-> name, number |-> number, enums |-> enums, types |-> types]
ExtensionXml(name, supported, type, enums, types) ==
    [name |-> name, supported |-> supported, type |-> type, enums |-> enums,
     types |-> types]
MemberXml(name, type, limittype, tail, values) ==
    [name |-> name, type |-> type, limittype |-> limittype, tail |-> tail,
     values |-> values]
TypeXml(name, alias, structextends, members) ==
    [name |-> name, alias |-> alias, structextends |-> structextends,
     members |-> members]

\* The names of the documents modelled that match ^VK_STRUCTURE_TYPE_.*
StructureTypeNames ==
    {"VK_STRUCTURE_TYPE_PHYSICAL_DEVICE_FEATURES_2",
     "VK_STRUCTURE_TYPE_PHYSICAL_DEVICE_PROPERTIES_2",
     "VK_STRUCTURE_TYPE_PHYSICAL_DEVICE_VULKAN_1_2_FEATURES",
     "VK_STRUCTURE_TYPE_PHYSICAL_DEVICE_VULKAN_1_10_FEATURES",
     "VK_STRUCTURE_TYPE_PHYSICAL_DEVICE_PORTABILITY_SUBSET_FEATURES_KHR",
     "VK_STRUCTURE_TYPE_PHYSICAL_DEVICE_PORTABILITY_SUBSET_PROPERTIES_KHR",
     "VK_STRUCTURE_TYPE_PHYSICAL_DEVICE_VULKAN_1_1_PROPERTIES",
     "VK_STRUCTURE_TYPE_PHYSICAL_DEVICE_SYNTHETIC_PROPERTIES",
     "VK_STRUCTURE_TYPE_BASE", "VK_STRUCTURE_TYPE_BASE_KHR",
     "VK_STRUCTURE_TYPE_BASE_EXT"}

\* VulkanDefinitionScope.parseAliases from enum i on: alias -> name for the
\* enums that have an alias and a structure type name.
RECURSIVE sTypeAliases(_, _, _)
sTypeAliases(table, enums, i) ==
    IF i > Len(enums) THEN table
    ELSE sTypeAliases(IF enums[i].alias # None /\ enums[i].suffix = ""
                         /\ enums[i].stem \in StructureTypeNames
                      THEN DictSet(table, enums[i].alias, enums[i].stem)
                      ELSE table,
                      enums, i + 1)

\* re.search(r"^[1-9][0-9]*\.[0-9]+$", number) on character codes.
RECURSIVE AllDigits(_)
AllDigits(s) == s = <<>> \/ (IsDigit(Head(s)) /\ AllDigits(Tail(s)))
DotsOf(s) == {i \in 1..Len(s) : s[i] = 46}
IsVersionNumber(s) ==
    /\ Cardinality(DotsOf(s)) = 1
    /\ \E d \in DotsOf(s) :
        /\ d > 1 /\ d < Len(s)
        /\ s[1] # 48
        /\ AllDigits(SubSeq(s, 1, d - 1))
        /\ AllDigits(SubSeq(s, d + 1, Len(s)))

\* parseVersionInfo from feature i on. Log.f takes one argument and is
\* called with two here, so an unsupported number ends in a TypeError
\* instead of the fatal error.
RECURSIVE parseVersionInfo(_, _, _)
parseVersionInfo(versions, features, i) ==
    IF i > Len(features) THEN Ok(versions)
    ELSE IF ~IsVersionNumber(features[i].number)
    THEN Raise("crash", "parseVersionInfo")
    ELSE parseVersionInfo(
            DictSet(versions, features[i].number,
                    [name |-> features[i].name, number |-> features[i].number,
                     sTypeAliases |-> sTypeAliases(<<>>, features[i].enums, 1)]),
            features, i + 1)

\* The name enums of an extension element: the enums whose value is the
\* quoted extension name and whose name ends with _EXTENSION_NAME.
NameEnums(ext) ==
    SelectSeq(ext.enums,
              LAMBDA e : e.value = ext.name /\ e.suffix = "_EXTENSION_NAME")

\* parseExtensionInfo from extension i on: only extensions supported by
\* vulkan are kept, under the name with the stem of their first name enum.
RECURSIVE parseExtensionInfo(_, _, _)
parseExtensionInfo(extensions, exts, i) ==
    IF i > Len(exts) THEN Ok(extensions)
    ELSE IF exts[i].supported # "vulkan"
    THEN parseExtensionInfo(extensions, exts, i + 1)
    ELSE IF NameEnums(exts[i]) = <<>>
    THEN Raise("fatal", "parseExtensionInfo")
    ELSE parseExtensionInfo(
            DictSet(extensions, exts[i].name,
                    [name |-> exts[i].name,
                     upperCaseName |-> NameEnums(exts[i])[1].stem,
                     type |-> exts[i].type,
                     sTypeAliases |-> sTypeAliases(<<>>, exts[i].enums, 1)]),
            exts, i + 1)

\* The members dict parseStructInfo builds from member i on: sType and pNext
\* are skipped, a member whose name is followed by '[' is an array.
RECURSIVE StructMembers(_, _, _)
StructMembers(members, xs, i) ==
    IF i > Len(xs) THEN members
    ELSE StructMembers(
            IF xs[i].name # "sType" /\ xs[i].name # "pNext"
            THEN DictSet(members, xs[i].name,
                         [name |-> xs[i].name, type |-> xs[i].type,
                          limittype |-> xs[i].limittype,
                          isArray |-> xs[i].tail # <<>> /\ Head(xs[i].tail) = 91])
            ELSE members,
            xs, i + 1)

\* struct.find("./member[name='sType']") and its values attribute.
StructSType(type) ==
    IF \E i \in 1..Len(type.members) : type.members[i].name = "sType"
    THEN type.members[CHOOSE i \in 1..Len(type.members) :
                        /\ type.members[i].name = "sType"
                        /\ \A j \in 1..(i - 1) : type.members[j].name # "sType"].values
    ELSE None

\* The registry while it is loaded. struct.members and struct.aliases are
\* references: an alias struct shares the dict and the list of its base, so
\* the registry keeps the dicts and the lists apart from the structs, each
\* under the name of the struct that created it.
EmptyRegistry ==
    [versions |-> <<>>, extensions |-> <<>>, structs |-> <<>>,
     memberDicts |-> <<>>, aliasLists |-> <<>>]

\* parseStructInfo from type i on.
RECURSIVE parseStructInfo(_, _, _)
parseStructInfo(reg, types, i) ==
    IF i > Len(types) THEN reg
    ELSE parseStructInfo(
            [reg EXCEPT
                !.structs = DictSet(@, types[i].name,
                    [name |-> types[i].name,
                     sType |-> StructSType(types[i]),
                     extends |-> types[i].structextends,
                     members |-> types[i].name,
                     aliases |-> types[i].name,
                     definedByVersion |-> NoVersion,
                     definedByExtensions |-> <<>>]),
                !.memberDicts = DictSet(@, types[i].name,
                                        StructMembers(<<>>, types[i].members, 1)),
                !.aliasLists = DictSet(@, types[i].name, <<types[i].name>>)],
            types, i + 1)

\* parsePrerequisites, first loop, from require/type j of feature i on: a
\* known struct gets the feature's number as definedByVersion, whatever it
\* held.
RECURSIVE StampVersions(_, _, _, _)
StampVersions(structs, features, i, j) ==
    IF i > Len(features) THEN structs
    ELSE IF j > Len(features[i].types) THEN StampVersions(structs, features, i + 1, 1)
    ELSE StampVersions(
            IF DictHas(structs, features[i].types[j])
            THEN DictSet(structs, features[i].types[j],
                         [DictGet(structs, features[i].types[j])
                            EXCEPT !.definedByVersion = features[i].number])
            ELSE structs,
            features, i, j + 1)

\* parsePrerequisites, second loop, from require/type j of extension i on:
\* every extension element counts, supported by vulkan or not.
RECURSIVE StampExtensions(_, _, _, _)
StampExtensions(structs, exts, i, j) ==
    IF i > Len(exts) THEN structs
    ELSE IF j > Len(exts[i].types) THEN StampExtensions(structs, exts, i + 1, 1)
    ELSE StampExtensions(
            IF DictHas(structs, exts[i].types[j])
            THEN DictSet(structs, exts[i].types[j],
                         [DictGet(structs, exts[i].types[j])
                            EXCEPT !.definedByExtensions = Append(@, exts[i].name)])
            ELSE structs,
            exts, i, j + 1)

parsePrerequisites(reg, xml) ==
    [reg EXCEPT !.structs =
        StampExtensions(StampVersions(@, xml.features, 1, 1), xml.extensions, 1, 1)]

\* The loop over self.versions of parseAliases from version i on: the entry
\* for sType of the first version whose number is <= definedByVersion, as
\* str orders them, and whose table has one; None when there is none.
RECURSIVE FindInVersions(_, _, _, _)
FindInVersions(versions, i, definedByVersion, sType) ==
    IF i > Len(versions) THEN None
    ELSE IF /\ PyStrLe(versions[i].key, definedByVersion)
            /\ DictHas(versions[i].val.sTypeAliases, sType)
    THEN DictGet(versions[i].val.sTypeAliases, sType)
    ELSE FindInVersions(versions, i + 1, definedByVersion, sType)

\* The loop over definedByExtensions of parseAliases from name j on. An
\* extension that is not supported by vulkan is not in self.extensions:
\* self.extensions[extName] raises KeyError.
RECURSIVE FindInExtensions(_, _, _, _)
FindInExtensions(extensions, names, j, sType) ==
    IF j > Len(names) THEN Ok(None)
    ELSE IF ~DictHas(extensions, names[j]) THEN Raise("crash", "parseAliases")
    ELSE IF DictHas(DictGet(extensions, names[j]).sTypeAliases, sType)
    THEN Ok(DictGet(DictGet(extensions, names[j]).sTypeAliases, sType))
    ELSE FindInExtensions(extensions, names, j + 1, sType)

\* The sType alias parseAliases finds for aliasDef, base being the struct it
\* names: the versions first when aliasDef has a definedByVersion, then the
\* extensions; none is fatal.
FoundAlias(found) ==
    IF Failed(found) THEN found
    ELSE IF found.val = None THEN Raise("fatal", "parseAliases")
    ELSE found
FindSTypeAlias(reg, base, aliasDef) ==
    FoundAlias(
        IF /\ aliasDef.definedByVersion # NoVersion
           /\ FindInVersions(reg.versions, 1, aliasDef.definedByVersion, base.sType) # None
        THEN Ok(FindInVersions(reg.versions, 1, aliasDef.definedByVersion, base.sType))
        ELSE FindInExtensions(reg.extensions, aliasDef.definedByExtensions, 1, base.sType))

\* "Fill missing struct information for the alias": the alias struct takes
\* the extends of base and shares its members dict and its aliases list, to
\* which its own name is appended.
ShareWithBase(reg, base, name) ==
    [reg EXCEPT
        !.structs = DictSet(@, name,
                            [DictGet(reg.structs, name) EXCEPT
                                !.extends = base.extends,
                                !.members = base.members,
                                !.aliases = base.aliases]),
        !.aliasLists = DictSet(@, base.aliases,
                               Append(DictGet(reg.aliasLists, base.aliases), name))]

SetSType(reg, name, sType) ==
    [reg EXCEPT !.structs =
        DictSet(@, name, [DictGet(reg.structs, name) EXCEPT !.sType = sType])]

\* One iteration of parseAliases, for a type element that has an alias.
ResolveAlias(reg, type) ==
    IF ~DictHas(reg.structs, type.alias) THEN Raise("fatal", "parseAliases")
    ELSE IF DictGet(reg.structs, type.alias).sType = None
    THEN Ok(ShareWithBase(reg, DictGet(reg.structs, type.alias), type.name))
    ELSE Then(FindSTypeAlias(reg, DictGet(reg.structs, type.alias),
                             DictGet(reg.structs, type.name)),
              LAMBDA sType :
              Ok(SetSType(ShareWithBase(reg, DictGet(reg.structs, type.alias), type.name),
                          type.name, sType)))

\* VulkanRegistry.parseAliases from type i on, in document order.
RECURSIVE parseAliases(_, _, _)
parseAliases(reg, types, i) ==
    IF i > Len(types) THEN Ok(reg)
    ELSE IF types[i].alias = None THEN parseAliases(reg, types, i + 1)
    ELSE Then(ResolveAlias(reg, types[i]), LAMBDA r : parseAliases(r, types, i + 1))

\* The hard-coded limittype table of applyWorkarounds.
Workarounds ==
    <<<<"VkPhysicalDeviceLimits", "bufferImageGranularity", "min">>,
      <<"VkPhysicalDeviceLimits", "subPixelPrecisionBits", "max">>,
      <<"VkPhysicalDeviceLimits", "subTexelPrecisionBits", "max">>,
      <<"VkPhysicalDeviceLimits", "mipmapPrecisionBits", "max">>,
      <<"VkPhysicalDeviceLimits", "viewportSubPixelBits", "max">>,
      <<"VkPhysicalDeviceLimits", "minMemoryMapAlignment", "max">>,
      <<"VkPhysicalDeviceLimits", "minTexelBufferOffsetAlignment", "min">>,
      <<"VkPhysicalDeviceLimits", "minUniformBufferOffsetAlignment", "min">>,
      <<"VkPhysicalDeviceLimits", "minStorageBufferOffsetAlignment", "min">>,
      <<"VkPhysicalDeviceLimits", "subPixelInterpolationOffsetBits", "max">>,
      <<"VkPhysicalDeviceLimits", "timestampPeriod", "IGNORE">>,
      <<"VkPhysicalDeviceLimits", "nonCoherentAtomSize", "min">>,
      <<"VkPhysicalDeviceLimits", "maxColorAttachments", "max">>,
      <<"VkPhysicalDeviceLimits", "pointSizeGranularity", "min">>,
      <<"VkPhysicalDeviceLimits", "lineWidthGranularity", "min">>,
      <<"VkPhysicalDeviceVulkan11Properties", "subgroupSize", "IGNORE">>,
      <<"VkPhysicalDevicePortabilitySubsetPropertiesKHR",
        "minVertexInputBindingStrideAlignment", "min">>>>

\* The members dict of the struct called name.
MembersOf(reg, name) == DictGet(reg.memberDicts, DictGet(reg.structs, name).members)

\* The assignments of the table from entry i on: a struct or a member that
\* the registry does not have raises KeyError.
RECURSIVE ApplyTable(_, _)
ApplyTable(reg, i) ==
    IF i > Len(Workarounds) THEN Ok(reg)
    ELSE IF ~DictHas(reg.structs, Workarounds[i][1])
    THEN Raise("crash", "applyWorkarounds")
    ELSE IF ~DictHas(MembersOf(reg, Workarounds[i][1]), Workarounds[i][2])
    THEN Raise("crash", "applyWorkarounds")
    ELSE ApplyTable(
            [reg EXCEPT !.memberDicts =
                DictSet(@, DictGet(reg.structs, Workarounds[i][1]).members,
                        DictSet(MembersOf(reg, Workarounds[i][1]), Workarounds[i][2],
                                [DictGet(MembersOf(reg, Workarounds[i][1]), Workarounds[i][2])
                                    EXCEPT !.limittype = Workarounds[i][3]]))],
            i + 1)

\* A variant of PatchMember that leaves every member as it is.
PatchMember_keeps(memberDef) == memberDef
\* A variant of PatchMember that also turns noauto back into bitmask.
PatchMember_toggles(memberDef) ==
    IF memberDef.type = "VkBool32" /\ memberDef.limittype = "bitmask"
    THEN [memberDef EXCEPT !.limittype = "noauto"]
    ELSE IF memberDef.type = "VkBool32" /\ memberDef.limittype = "noauto"
    THEN [memberDef EXCEPT !.limittype = "bitmask"]
    ELSE memberDef
\* The patch of the second loop of applyWorkarounds: bitmask on a VkBool32
\* becomes noauto.
PatchMember(memberDef) ==
    IF memberDef.limittype = "bitmask" /\ memberDef.type = "VkBool32"
    THEN [memberDef EXCEPT !.limittype = "noauto"]
    ELSE memberDef

PatchMembers(members) ==
    [m \in 1..Len(members) |-> Item(members[m].key, PatchMember(members[m].val))]

\* The second loop of applyWorkarounds from struct i on.
RECURSIVE PatchStructs(_, _)
PatchStructs(reg, i) ==
    IF i > Len(reg.structs) THEN reg
    ELSE PatchStructs(
            [reg EXCEPT !.memberDicts =
                DictSet(@, reg.structs[i].val.members,
                        PatchMembers(DictGet(reg.memberDicts, reg.structs[i].val.members)))],
            i + 1)

applyWorkarounds(reg) == Then(ApplyTable(reg, 1), LAMBDA r : Ok(PatchStructs(r, 1)))

\* VulkanRegistry.__init__: the passes in order. Platforms are left out,
\* nothing reads them.
VulkanRegistry(xml) ==
    Then(parseVersionInfo(<<>>, xml.features, 1), LAMBDA versions :
    Then(parseExtensionInfo(<<>>, xml.extensions, 1), LAMBDA extensions :
    Then(parseAliases(
            parsePrerequisites(
                parseStructInfo([EmptyRegistry EXCEPT !.versions = versions,
                                                       !.extensions = extensions],
                                xml.types, 1),
                xml),
            xml.types, 1),
         LAMBDA reg : applyWorkarounds(reg))))

\* The registry as the code after loading reads it: nothing changes it any
\* more, so every struct is given with the members dict and the aliases
\* list its references lead to.
Resolved(reg) ==
    [versions |-> reg.versions,
     extensions |-> reg.extensions,
     structs |-> [i \in 1..Len(reg.structs) |->
        Item(reg.structs[i].key,
             [reg.structs[i].val EXCEPT
                !.members = DictGet(reg.memberDicts, reg.structs[i].val.members),
                !.aliases = DictGet(reg.aliasLists, reg.structs[i].val.aliases)])]]

\* --------------------------------------------------- the registry documents
Sized == <<91, 50, 93>>    \* the tail "[2]" of an array member
Plain(name, type, limittype) == MemberXml(name, type, limittype, <<>>, None)
Array(name, type, limittype) == MemberXml(name, type, limittype, Sized, None)
STypeMember(values) == MemberXml("sType", "VkStructureType", None, <<>>, values)
PNextMember == MemberXml("pNext", "void", None, <<>>, None)
NameEnum(stem, name) == EnumValue(stem, "_EXTENSION_NAME", name)

\* The structs applyWorkarounds assigns to, with the limittypes vk.xml
\* declares for the members of its table.
LimitsXml(colorAttachmentsType) ==
    TypeXml("VkPhysicalDeviceLimits", None, <<>>,
        <<Plain("bufferImageGranularity", "VkDeviceSize", "noauto"),
          Plain("subPixelPrecisionBits", "uint32_t", "noauto"),
          Plain("subTexelPrecisionBits", "uint32_t", "noauto"),
          Plain("mipmapPrecisionBits", "uint32_t", "noauto"),
          Plain("viewportSubPixelBits", "uint32_t", "noauto"),
          Plain("minMemoryMapAlignment", "size_t", "noauto"),
          Plain("minTexelBufferOffsetAlignment", "VkDeviceSize", "noauto"),
          Plain("minUniformBufferOffsetAlignment", "VkDeviceSize", "noauto"),
          Plain("minStorageBufferOffsetAlignment", "VkDeviceSize", "noauto"),
          Plain("subPixelInterpolationOffsetBits", "uint32_t", "noauto"),
          Plain("timestampPeriod", "float", "noauto"),
          Plain("nonCoherentAtomSize", "VkDeviceSize", "noauto"),
          Plain("maxColorAttachments", colorAttachmentsType, "bitmask"),
          Array("pointSizeRange", "float", "range"),
          Plain("pointSizeGranularity", "float", "noauto"),
          Plain("lineWidthGranularity", "float", "noauto")>>)
Vulkan11PropertiesXml ==
    TypeXml("VkPhysicalDeviceVulkan11Properties", None, <<"VkPhysicalDeviceProperties2">>,
        <<STypeMember("VK_STRUCTURE_TYPE_PHYSICAL_DEVICE_VULKAN_1_1_PROPERTIES"),
          PNextMember,
          Plain("subgroupSize", "uint32_t", "noauto")>>)
PortabilitySubsetPropertiesXml ==
    TypeXml("VkPhysicalDevicePortabilitySubsetPropertiesKHR", None,
        <<"VkPhysicalDeviceProperties2">>,
        <<STypeMember("VK_STRUCTURE_TYPE_PHYSICAL_DEVICE_PORTABILITY_SUBSET_PROPERTIES_KHR"),
          PNextMember,
          Plain("minVertexInputBindingStrideAlignment", "uint32_t", "noauto")>>)

\* The registry document of the runs that load profiles. Besides structs of
\* vk.xml it has a version 1.10, an extension without a type attribute, an
\* extension that is not supported by vulkan, and a property struct with a
\* member of every limittype.
TestXml ==
    [features |-> <<
        FeatureXml("VK_VERSION_1_0", VersionNumber(1, 0), <<>>,
            <<"VkPhysicalDeviceFeatures", "VkExtent3D", "VkQueueFamilyProperties",
              "VkPhysicalDeviceMemoryProperties", "VkFormatProperties",
              "VkPhysicalDeviceLimits", "VkPhysicalDeviceProperties">>),
        FeatureXml("VK_VERSION_1_1", VersionNumber(1, 1), <<>>,
            <<"VkPhysicalDeviceFeatures2", "VkPhysicalDeviceProperties2",
              "VkPhysicalDeviceSyntheticProperties", "VkPhysicalDeviceChainedFeatures",
              "VkPhysicalDeviceUnchainableFeatures">>),
        FeatureXml("VK_VERSION_1_2", VersionNumber(1, 2), <<>>,
            <<"VkPhysicalDeviceVulkan12Features", "VkPhysicalDeviceVulkan11Properties">>),
        FeatureXml("VK_VERSION_1_10", VersionNumber(1, 10), <<>>,
            <<"VkPhysicalDeviceVulkan110Features">>)>>,
     extensions |-> <<
        ExtensionXml("VK_KHR_surface", "vulkan", "instance",
            <<NameEnum("VK_KHR_SURFACE", "VK_KHR_surface")>>, <<>>),
        ExtensionXml("VK_KHR_swapchain", "vulkan", "device",
            <<NameEnum("VK_KHR_SWAPCHAIN", "VK_KHR_swapchain")>>, <<>>),
        ExtensionXml("VK_KHR_portability_subset", "vulkan", "device",
            <<NameEnum("VK_KHR_PORTABILITY_SUBSET", "VK_KHR_portability_subset")>>,
            <<"VkPhysicalDevicePortabilitySubsetFeaturesKHR",
              "VkPhysicalDevicePortabilitySubsetPropertiesKHR">>),
        ExtensionXml("VK_EXT_untyped", "vulkan", None,
            <<NameEnum("VK_EXT_UNTYPED", "VK_EXT_untyped")>>, <<>>),
        ExtensionXml("VK_EXT_unknown", "disabled", "device",
            <<NameEnum("VK_EXT_UNKNOWN", "VK_EXT_unknown")>>, <<>>)>>,
     types |-> <<
        TypeXml("VkPhysicalDeviceFeatures", None, <<>>,
            <<Plain("geometryShader", "VkBool32", None),
              Plain("tessellationShader", "VkBool32", None)>>),
        TypeXml("VkPhysicalDeviceFeatures2", None, <<"VkDeviceCreateInfo">>,
            <<STypeMember("VK_STRUCTURE_TYPE_PHYSICAL_DEVICE_FEATURES_2"),
              PNextMember,
              Plain("features", "VkPhysicalDeviceFeatures", None)>>),
        TypeXml("VkPhysicalDeviceProperties", None, <<>>,
            <<Plain("apiVersion", "uint32_t", "noauto")>>),
        TypeXml("VkPhysicalDeviceProperties2", None, <<>>,
            <<STypeMember("VK_STRUCTURE_TYPE_PHYSICAL_DEVICE_PROPERTIES_2"),
              PNextMember,
              Plain("properties", "VkPhysicalDeviceProperties", None)>>),
        TypeXml("VkPhysicalDeviceChainedFeatures", None,
            <<"VkPhysicalDeviceVulkan12Features">>,
            <<STypeMember("VK_STRUCTURE_TYPE_PHYSICAL_DEVICE_CHAINED_FEATURES"),
              PNextMember,
              Plain("chained", "VkBool32", None)>>),
        TypeXml("VkPhysicalDeviceUnchainableFeatures", None,
            <<"VkPhysicalDeviceFeatures2", "VkDeviceCreateInfo">>,
            <<Plain("unchainable", "VkBool32", None)>>),
        TypeXml("VkPhysicalDeviceVulkan12Features", None,
            <<"VkPhysicalDeviceFeatures2", "VkDeviceCreateInfo">>,
            <<STypeMember("VK_STRUCTURE_TYPE_PHYSICAL_DEVICE_VULKAN_1_2_FEATURES"),
              PNextMember,
              Plain("drawIndirectCount", "VkBool32", None)>>),
        TypeXml("VkPhysicalDeviceVulkan110Features", None,
            <<"VkPhysicalDeviceFeatures2", "VkDeviceCreateInfo">>,
            <<STypeMember("VK_STRUCTURE_TYPE_PHYSICAL_DEVICE_VULKAN_1_10_FEATURES"),
              PNextMember,
              Plain("drawIndirectCount", "VkBool32", None)>>),
        TypeXml("VkPhysicalDevicePortabilitySubsetFeaturesKHR", None,
            <<"VkPhysicalDeviceFeatures2", "VkDeviceCreateInfo">>,
            <<STypeMember("VK_STRUCTURE_TYPE_PHYSICAL_DEVICE_PORTABILITY_SUBSET_FEATURES_KHR"),
              PNextMember,
              Plain("events", "VkBool32", None)>>),
        TypeXml("VkExtent3D", None, <<>>,
            <<Plain("width", "uint32_t", None),
              Plain("height", "uint32_t", None),
              Plain("depth", "uint32_t", None)>>),
        TypeXml("VkPhysicalDeviceSyntheticProperties", None,
            <<"VkPhysicalDeviceProperties2">>,
            <<STypeMember("VK_STRUCTURE_TYPE_PHYSICAL_DEVICE_SYNTHETIC_PROPERTIES"),
              PNextMember,
              Plain("mBitmask", "VkFlags", "bitmask"),
              Plain("mMax", "uint32_t", "max"),
              Plain("mMin", "uint32_t", "min"),
              Array("mRange", "float", "range"),
              Plain("mEq", "uint32_t", "noauto"),
              Plain("mStruct", "VkExtent3D", "struct"),
              Plain("mNone", "uint32_t", None),
              Plain("mIgnore", "float", "IGNORE"),
              Plain("mExact", "uint32_t", "exact"),
              Array("mMaxArray", "uint32_t", "max")>>),
        TypeXml("VkQueueFamilyProperties", None, <<>>,
            <<Plain("queueFlags", "VkQueueFlags", None),
              Plain("queueCount", "uint32_t", None),
              Plain("timestampValidBits", "uint32_t", None),
              Plain("minImageTransferGranularity", "VkExtent3D", None)>>),
        TypeXml("VkPhysicalDeviceMemoryProperties", None, <<>>,
            <<Plain("memoryTypeCount", "uint32_t", None)>>),
        TypeXml("VkFormatProperties", None, <<>>,
            <<Plain("linearTilingFeatures", "VkFormatFeatureFlags", None),
              Plain("optimalTilingFeatures", "VkFormatFeatureFlags", None),
              Plain("bufferFeatures", "VkFormatFeatureFlags", None)>>),
        LimitsXml("uint32_t"),
        Vulkan11PropertiesXml,
        PortabilitySubsetPropertiesXml>>]

\* Loading: documents around a struct VkBase with an sType and two VkBool32
\* and VkFlags members of limittype bitmask, its alias VkBaseKHR and the
\* alias VkBaseEXT of that alias. order is the document order of the three
\* type elements; the features in requiredBy require VkBaseKHR, as does the
\* extension VK_KHR_base unless supported is "absent"; the feature tableIn
\* and that extension declare the sType alias of VkBase's sType; the
\* extension VK_EXT_base requires VkBaseEXT and declares its sType alias.
RegistryVersions ==
    <<VersionNumber(1, 0), VersionNumber(1, 1), VersionNumber(1, 2), VersionNumber(1, 10)>>
RegistryVersionNames ==
    <<"VK_VERSION_1_0", "VK_VERSION_1_1", "VK_VERSION_1_2", "VK_VERSION_1_10">>
AliasTypeXml(name) ==
    IF name = "VkBase"
    THEN TypeXml("VkBase", None, <<"VkPhysicalDeviceFeatures2">>,
            <<STypeMember("VK_STRUCTURE_TYPE_BASE"), PNextMember,
              Plain("flag", "VkBool32", "bitmask"),
              Plain("mask", "VkFlags", "bitmask")>>)
    ELSE IF name = "VkBaseKHR" THEN TypeXml("VkBaseKHR", "VkBase", <<>>, <<>>)
    ELSE TypeXml("VkBaseEXT", "VkBaseKHR", <<>>, <<>>)
TypeOrders ==
    {<<"VkBase", "VkBaseKHR", "VkBaseEXT">>, <<"VkBase", "VkBaseEXT", "VkBaseKHR">>,
     <<"VkBaseKHR", "VkBase", "VkBaseEXT">>, <<"VkBaseKHR", "VkBaseEXT", "VkBase">>,
     <<"VkBaseEXT", "VkBase", "VkBaseKHR">>, <<"VkBaseEXT", "VkBaseKHR", "VkBase">>}
WorkaroundTypes(colorAttachmentsType) ==
    <<TypeXml("VkPhysicalDeviceLimitsKHR", "VkPhysicalDeviceLimits", <<>>, <<>>),
      LimitsXml(colorAttachmentsType), Vulkan11PropertiesXml,
      PortabilitySubsetPropertiesXml>>
RegistryFeature(v, requiredBy, tableIn) ==
    FeatureXml(RegistryVersionNames[v], RegistryVersions[v],
        IF v = tableIn
        THEN <<EnumAlias("VK_FORMAT_BASE_KHR", "VK_FORMAT_BASE"),
               EnumAlias("VK_STRUCTURE_TYPE_BASE_KHR", "VK_STRUCTURE_TYPE_BASE")>>
        ELSE <<>>,
        (IF v = 1 THEN <<"VkBase", "VkPhysicalDeviceLimits", "VkUndeclared">> ELSE <<>>)
        \o (IF v \in requiredBy THEN <<"VkBaseKHR">> ELSE <<>>)
        \o (IF v = 3 THEN <<"VkPhysicalDeviceVulkan11Properties">> ELSE <<>>))
RegistryExtensions(supported) ==
    (IF supported = "absent" THEN <<>>
     ELSE <<ExtensionXml("VK_KHR_base", supported, "device",
                <<NameEnum("VK_KHR_BASE", "VK_KHR_base"),
                  EnumAlias("VK_STRUCTURE_TYPE_BASE_KHR", "VK_STRUCTURE_TYPE_BASE")>>,
                <<"VkBaseKHR">>)>>)
    \o <<ExtensionXml("VK_EXT_base", "vulkan", "device",
            <<EnumValue("VK_EXT_BASE", "_SPEC_VERSION", "1"),
              NameEnum("VK_EXT_BASE", "VK_EXT_base"),
              EnumAlias("VK_STRUCTURE_TYPE_BASE_EXT", "VK_STRUCTURE_TYPE_BASE_KHR")>>,
            <<"VkBaseEXT">>),
         ExtensionXml("VK_KHR_portability_subset", "vulkan", "device",
            <<NameEnum("VK_KHR_PORTABILITY_SUBSET", "VK_KHR_portability_subset")>>,
            <<"VkPhysicalDevicePortabilitySubsetPropertiesKHR">>)>>
RegistryDoc(order, requiredBy, tableIn, supported, colorAttachmentsType) ==
    [features |-> [v \in 1..4 |-> RegistryFeature(v, requiredBy, tableIn)],
     extensions |-> RegistryExtensions(supported),
     types |-> [i \in 1..3 |-> AliasTypeXml(order[i])]
               \o WorkaroundTypes(colorAttachmentsType)]
\* Documents that the loader rejects: a feature number that is no version
\* number, an extension without a name enum, an alias of a struct that is
\* not declared, and a document without the structs of the workarounds.
RejectedDocs ==
    {[TestXml EXCEPT !.features = Append(@, FeatureXml("VKSC_VERSION_1_0", <<49, 46>>, <<>>, <<>>))],
     [TestXml EXCEPT !.extensions =
        Append(@, ExtensionXml("VK_EXT_unnamed", "vulkan", "device", <<>>, <<>>))],
     [TestXml EXCEPT !.types = Append(@, TypeXml("VkLostKHR", "VkLost", <<>>, <<>>))],
     [TestXml EXCEPT !.types = SubSeq(@, 1, 11)]}
RegistryDocs ==
    {RegistryDoc(order, requiredBy, tableIn, supported, "uint32_t") :
        order \in TypeOrders, requiredBy \in SUBSET {2, 3, 4}, tableIn \in 0..4,
        supported \in {"absent", "vulkan", "disabled"}}
    \cup {RegistryDoc(order, {2}, 2, "vulkan", "VkBool32") : order \in TypeOrders}
    \cup RejectedDocs

\* --------------------------------------------------------------- the state
VARIABLES
    xml,         \* the registry document
    registry,    \* the VulkanRegistry the run loaded
    dir,         \* the profiles directory: file name -> parsed JSON document
    filenames,   \* what os.listdir returned
    next,        \* the index in filenames of the file loadFromDir loads next
    profiles,    \* the profiles map of loadFromDir: name -> VulkanProfile
    pc,          \* where the run is
    raised,      \* what ended the run: [err, at], err "none" while it runs
    out,         \* the three output files
    call         \* the last call of the generated library: function, arguments, what it returned

vars == <<xml, registry, dir, filenames, next, profiles, pc, raised, out, call>>

NotOpened == [opened |-> FALSE, parts |-> <<>>]
NoOutput == [h |-> NotOpened, cpp |-> NotOpened, hpp |-> NotOpened]
NotRaised == [err |-> "none", at |-> ""]
NotCalled == [fn |-> "none"]

\* A fixed text the generator copies.
Text(name) == [part |-> name, r |-> Ok(<<>>)]
Gen(name, r) == [part |-> name, r |-> r]

\* "with open(path, 'w') as f" and the f.write calls in order: a call whose
\* argument raises ends the run, and the file keeps what was written.
WriteFile(writes) ==
    LET bad == {i \in 1..Len(writes) : Failed(writes[i].r)}
        n == IF bad = {} THEN Len(writes)
             ELSE (CHOOSE i \in bad : \A j \in bad : i <= j) - 1
    IN  [file |-> [opened |-> TRUE,
                   parts |-> [i \in 1..n |-> [part |-> writes[i].part,
                                              body |-> writes[i].r.val]]],
         raised |-> IF bad = {} THEN NotRaised
                    ELSE [err |-> writes[n + 1].r.err, at |-> writes[n + 1].r.at]]

generate_h(profs) ==
    WriteFile(<<Text("COPYRIGHT_HEADER"), Text("H_HEADER"),
                Gen("gen_profileDefs", Ok(gen_profileDefs(profs))),
                Text("API_DEFS"), Text("H_FOOTER")>>)

generate_cpp(reg, profs) ==
    WriteFile(<<Text("COPYRIGHT_HEADER"), Text("CPP_HEADER"),
                Gen("gen_structPropLists", gen_structPropLists(reg, profs)),
                Gen("gen_formatLists", gen_formatLists(profs)),
                Gen("gen_queueFamilyLists", gen_queueFamilyLists(profs)),
                Gen("gen_privateImpl", Ok(gen_privateImpl(reg, profs))),
                Gen("gen_publicImpl", gen_publicImpl(reg, profs))>>)

generate_hpp(reg, profs) ==
    WriteFile(<<Text("COPYRIGHT_HEADER"), Text("HPP_HEADER"),
                Gen("gen_profileDefs", Ok(gen_profileDefs(profs))),
                Text("API_DEFS"),
                Gen("gen_structPropLists", gen_structPropLists(reg, profs)),
                Gen("gen_formatLists", gen_formatLists(profs)),
                Gen("gen_queueFamilyLists", gen_queueFamilyLists(profs)),
                Gen("gen_privateImpl", Ok(gen_privateImpl(reg, profs))),
                Gen("gen_publicImpl", gen_publicImpl(reg, profs)),
                Text("HPP_FOOTER")>>)

\* VulkanProfiles.parseProfiles from profile i of the document on: every
\* profile is resolved and stored under its name. When a profile raises, val
\* is the map as the profiles before it left it.
Registered(r, profs, f(_)) == IF Failed(r) THEN [r EXCEPT !.val = profs] ELSE f(r.val)

RECURSIVE parseProfiles(_, _, _, _, _)
parseProfiles(reg, profs, json, caps, i) ==
    IF i > Len(json) THEN Ok(profs)
    ELSE Registered(VulkanProfile(reg, json[i].key, json[i].val, caps), profs,
                    LAMBDA profile :
                    parseProfiles(reg, DictSet(profs, json[i].key, profile), json, caps, i + 1))

\* All orders of the names of a directory.
Listings(d) ==
    {l \in [1..Len(d) -> {d[i].key : i \in 1..Len(d)}] :
        \A i, j \in 1..Len(d) : i # j => l[i] # l[j]}

\* ------------------------------------------------------------- the actions
\* registry = VulkanRegistry(registryFile) of the main program: the document
\* is loaded, or the run ends with what the loader raised.
NoRegistry == Resolved(EmptyRegistry)

Constructed(r) ==
    /\ registry' = IF Failed(r) THEN registry ELSE Resolved(r.val)
    /\ raised' = [err |-> r.err, at |-> r.at]
    /\ pc' = IF Failed(r) THEN "failed" ELSE "loadFromDir"
    /\ UNCHANGED <<xml, dir, filenames, next, profiles, out, call>>

LoadRegistry ==
    /\ pc = "VulkanRegistry"
    /\ Constructed(VulkanRegistry(xml))

\* loadFromDir up to the listing: os.listdir returns the names in an order
\* the file system chooses. Every file of the directories modelled is a
\* regular file named *.json.
ListDir ==
    /\ pc = "loadFromDir"
    /\ filenames' \in Listings(dir)
    /\ next' = 1
    /\ pc' = IF Len(dir) = 0 THEN "generate_h" ELSE "parseProfiles"
    /\ UNCHANGED <<xml, registry, dir, profiles, raised, out, call>>

\* What loadFromDir holds once parseProfiles of the next file returned r.
Loaded(r) ==
    /\ profiles' = r.val
    /\ raised' = [err |-> r.err, at |-> r.at]
    /\ next' = IF Failed(r) THEN next ELSE next + 1
    /\ pc' = IF Failed(r) THEN "failed"
             ELSE IF next = Len(filenames) THEN "generate_h" ELSE "parseProfiles"
    /\ UNCHANGED <<xml, registry, dir, filenames, out, call>>

\* One iteration of the loop of loadFromDir: json.load and parseProfiles of
\* the next file.
LoadFile ==
    /\ pc = "parseProfiles"
    /\ Loaded(parseProfiles(registry, profiles,
                            DictGet(dir, filenames[next]).profiles,
                            DictGet(dir, filenames[next]).capabilities, 1))

Generate(file, w, then) ==
    /\ out' = [out EXCEPT ![file] = w.file]
    /\ raised' = w.raised
    /\ pc' = IF w.raised.err = "none" THEN then ELSE "failed"
    /\ UNCHANGED <<xml, registry, dir, filenames, next, profiles, call>>

GenerateH ==
    /\ pc = "generate_h"
    /\ Generate("h", generate_h(profiles), "generate_cpp")

GenerateCpp ==
    /\ pc = "generate_cpp"
    /\ Generate("cpp", generate_cpp(registry, profiles), "generate_hpp")

GenerateHpp ==
    /\ pc = "generate_hpp"
    /\ Generate("hpp", generate_hpp(registry, profiles), "done")

Next == LoadRegistry \/ ListDir \/ LoadFile \/ GenerateH \/ GenerateCpp \/ GenerateHpp

\* -------------------------------------------------------------- the inputs
\* A capability fragment, a profile object and a profile file as json.load
\* returns them.
Fragment(extensions, features, properties, formats, queueFamiliesProperties, memoryProperties) ==
    [extensions |-> extensions, features |-> features, properties |-> properties,
     formats |-> formats, queueFamiliesProperties |-> queueFamiliesProperties,
     memoryProperties |-> memoryProperties]
EmptyFragment == Fragment(Absent, Absent, Absent, Absent, Absent, Absent)
ProfileData(apiVersion, capabilities) ==
    [version |-> 1, apiVersion |-> apiVersion, fallback |-> <<>>,
     capabilities |-> capabilities]
Document(profs, capabilities) == [profiles |-> profs, capabilities |-> capabilities]

\* A directory of one file with one profile over the fragments baseline and
\* extra, listed in the order capNames.
OneProfile(name, apiVersion, capNames, baseline, extra) ==
    <<Item("a.json",
           Document(<<Item(name, ProfileData(apiVersion, capNames))>>,
                    <<Item("baseline", baseline), Item("extra", extra)>>))>>

SeqsUpTo(S, n) == UNION {[1..k -> S] : k \in 0..n}
Lists(S) == {List(l) : l \in SeqsUpTo(S, MaxListLen)}

\* Merging: both fragments give one member of one struct of one section, or
\* both give queue family records.
MergeScalars ==
    {Scalar("int", "1"), Scalar("int", "2"), Scalar("float", "1.0"), Scalar("bool", "True"),
     Scalar("str", "VK_SAMPLE_COUNT_1_BIT")}
MergeObjects ==
    {Dict(<<>>), Dict(<<Item("width", Scalar("int", "1"))>>),
     Dict(<<Item("width", List(<<Scalar("int", "1")>>))>>)}
MergeValues ==
    MergeScalars \cup Lists({Scalar("int", "1"), Scalar("int", "2")}) \cup MergeObjects
MergeKeys ==
    {<<"features", "VkPhysicalDeviceFeatures", "geometryShader">>,
     <<"properties", "VkPhysicalDeviceSyntheticProperties", "mStruct">>,
     <<"formats", "VK_FORMAT_R8_UNORM", "VkFormatProperties">>,
     <<"memoryProperties", "VkPhysicalDeviceMemoryProperties", "memoryTypeCount">>}
Giving(k, value) ==
    [EmptyFragment EXCEPT ![k[1]] = Dict(<<Item(k[2], Dict(<<Item(k[3], value)>>))>>)]
QueueFamily(queueCount) ==
    Dict(<<Item("VkQueueFamilyProperties",
                Dict(<<Item("queueFlags", List(<<Scalar("str", "VK_QUEUE_GRAPHICS_BIT")>>)),
                       Item("queueCount", Scalar("int", queueCount)),
                       Item("timestampValidBits", Scalar("int", "36")),
                       Item("minImageTransferGranularity",
                            Dict(<<Item("width", Scalar("int", "1")),
                                   Item("height", Scalar("int", "1")),
                                   Item("depth", Scalar("int", "1"))>>))>>))>>)
CapOrders == {<<"baseline", "extra">>, <<"extra", "baseline">>}
MergeDirs ==
    {OneProfile("VP_TEST_merge", ApiVersion(1, 1, 0), o, Giving(k, a), Giving(k, b)) :
        o \in CapOrders, k \in MergeKeys, a \in MergeValues, b \in MergeValues}
    \cup
    {OneProfile("VP_TEST_merge", ApiVersion(1, 1, 0), o,
                [EmptyFragment EXCEPT !.queueFamiliesProperties = a],
                [EmptyFragment EXCEPT !.queueFamiliesProperties = b]) :
        o \in CapOrders, a \in Lists({QueueFamily("1"), QueueFamily("2")}),
        b \in Lists({QueueFamily("1"), QueueFamily("2")})}

\* Comparing: baseline gives one member of the property struct that has a
\* member of every limittype, extra gives nothing or a member too.
SyntheticMembers ==
    {"mBitmask", "mMax", "mMin", "mRange", "mEq", "mStruct", "mNone", "mIgnore",
     "mExact", "mMaxArray"}
CompareValues ==
    {Scalar("int", "1"), Scalar("bool", "True"), Dict(<<Item("width", Scalar("int", "1"))>>)}
        \cup Lists({Scalar("float", "1.0")})
GivingProperty(member, value) ==
    Giving(<<"properties", "VkPhysicalDeviceSyntheticProperties", member>>, value)
CompareDirs ==
    {OneProfile("VP_TEST_compare", ApiVersion(1, 1, 0), <<"baseline", "extra">>,
                GivingProperty(m, v), extra) :
        m \in SyntheticMembers, v \in CompareValues,
        extra \in {EmptyFragment}
                  \cup {GivingProperty(n, w) :
                            n \in {"mMin", "mRange", "mMaxArray"},
                            w \in {Scalar("int", "1")} \cup Lists({Scalar("float", "1.0")})}}

\* Resolving: the profile's api-version, the extensions of both fragments,
\* and at most one struct that baseline names in one section.
Extensions(names, specVersion) ==
    Dict([i \in 1..Len(names) |-> Item(names[i], Scalar("int", specVersion))])
BaselineExtensions ==
    {Absent} \cup
    {Extensions(names, "1") :
        names \in {<<"VK_KHR_surface">>, <<"VK_KHR_swapchain">>,
                   <<"VK_KHR_swapchain", "VK_KHR_surface">>,
                   <<"VK_KHR_surface", "VK_KHR_swapchain">>,
                   <<"VK_KHR_portability_subset">>,
                   <<"VK_KHR_portability_subset", "VK_KHR_swapchain">>,
                   <<"VK_EXT_untyped">>, <<"VK_EXT_unknown">>}}
ExtraExtensions ==
    {Absent} \cup
    {Extensions(names, "2") :
        names \in {<<"VK_KHR_swapchain">>, <<"VK_KHR_surface">>,
                   <<"VK_KHR_portability_subset", "VK_KHR_surface">>}}
ApiVersions == {ApiVersion(1, 1, 0), ApiVersion(1, 2, 0), ApiVersion(1, 10, 0)}
StructSections ==
    {"features", "properties", "formats", "queueFamiliesProperties", "memoryProperties"}
StructNames ==
    {"VkPhysicalDeviceVulkan12Features", "VkPhysicalDeviceVulkan110Features",
     "VkPhysicalDevicePortabilitySubsetFeaturesKHR", "VkPhysicalDeviceUnregistered"}
Naming(section, structName) ==
    LET named == Dict(<<Item(structName, Dict(<<>>))>>)
    IN  [EmptyFragment EXCEPT ![section] =
            IF section = "queueFamiliesProperties" THEN List(<<named>>)
            ELSE IF section = "formats" THEN Dict(<<Item("VK_FORMAT_R8_UNORM", named)>>)
            ELSE named]
ResolveDirs ==
    {OneProfile("VP_TEST_resolve", v, <<"baseline", "extra">>,
                [f EXCEPT !.extensions = a], [EmptyFragment EXCEPT !.extensions = b]) :
        v \in ApiVersions, a \in BaselineExtensions, b \in ExtraExtensions,
        f \in {EmptyFragment} \cup {Naming(s, n) : s \in StructSections, n \in StructNames}}

\* Listing: up to two files of one profile each; the profiles have different
\* names.
ListedFragments ==
    {[EmptyFragment EXCEPT !.extensions = e, !.features = f] :
        e \in {Absent, Extensions(<<"VK_KHR_swapchain">>, "1"), Extensions(<<"VK_EXT_unknown">>, "1")},
        f \in {Absent,
               Dict(<<Item("VkPhysicalDeviceFeatures",
                           Dict(<<Item("geometryShader", Scalar("bool", "True"))>>))>>)}}
ListedFile(fileName, profileName) ==
    {Item(fileName,
          Document(<<Item(profileName, ProfileData(v, <<"baseline">>))>>,
                   <<Item("baseline", f)>>)) :
        v \in {ApiVersion(1, 1, 0), ApiVersion(1, 2, 0)}, f \in ListedFragments}
ListedDirs ==
    {<<>>}
    \cup {<<a>> : a \in ListedFile("a.json", "VP_TEST_a")}
    \cup {<<a, b>> : a \in ListedFile("a.json", "VP_TEST_a"),
                     b \in ListedFile("b.json", "VP_TEST_b")}

\* Requiring: api-versions that are not the number of a version of the
\* registry followed by a patch number.
OddApiVersions ==
    {ApiVersion(1, 3, 0), ApiVersion(0, 1, 0), VersionNumber(1, 2), DecStr(1),
     VersionNumber(1, 2) \o <<45, 114, 99>>, <<118>> \o ApiVersion(1, 1, 0)}
RequiringDirs ==
    {OneProfile("VP_TEST_require", v, <<"baseline", "extra">>,
                [EmptyFragment EXCEPT !.extensions = a], EmptyFragment) :
        v \in OddApiVersions,
        a \in {Absent, Extensions(<<"VK_KHR_swapchain", "VK_KHR_surface">>, "1")}}

\* Redefining: two files that define a profile of the same name, with the
\* same or another api-version and fragment.
RedefiningDirs ==
    {<<a, b>> : a \in ListedFile("a.json", "VP_TEST_a"),
                b \in ListedFile("b.json", "VP_TEST_a")}

\* Wrapping: baseline gives a member of VkPhysicalDeviceFeatures, extra gives
\* nothing, another member of it, VkPhysicalDeviceFeatures2 with its
\* features member, or another feature struct; baseline may give a property
\* struct too.
WrappedFeatures(member) ==
    Dict(<<Item("VkPhysicalDeviceFeatures", Dict(<<Item(member, Scalar("bool", "True"))>>))>>)
WrappingExtras ==
    {Absent, WrappedFeatures("geometryShader"), WrappedFeatures("tessellationShader"),
     Dict(<<Item("VkPhysicalDeviceFeatures2",
                 Dict(<<Item("features",
                             Dict(<<Item("tessellationShader", Scalar("bool", "True"))>>))>>))>>),
     Dict(<<Item("VkPhysicalDeviceVulkan12Features",
                 Dict(<<Item("drawIndirectCount", Scalar("bool", "True"))>>))>>)}
WrappingProperties ==
    {Absent,
     Dict(<<Item("VkPhysicalDeviceSyntheticProperties",
                 Dict(<<Item("mMax", Scalar("int", "1"))>>))>>)}
    \cup
    {Dict(<<Item("VkPhysicalDeviceSyntheticProperties", Dict(<<Item("mBitmask", List(l))>>))>>) :
        l \in {<<Scalar("str", "VK_SAMPLE_COUNT_1_BIT")>>,
               <<Scalar("str", "VK_SAMPLE_COUNT_1_BIT"), Scalar("int", "2")>>,
               <<Scalar("int", "2"), Scalar("str", "VK_SAMPLE_COUNT_1_BIT")>>}}
WrappingDirs ==
    {OneProfile("VP_TEST_wrap", v, o,
                [EmptyFragment EXCEPT !.features = WrappedFeatures("geometryShader"),
                                      !.properties = q],
                [EmptyFragment EXCEPT !.features = f]) :
        v \in {ApiVersion(1, 1, 0), ApiVersion(1, 2, 0)}, o \in CapOrders,
        f \in WrappingExtras, q \in WrappingProperties}

\* Chaining: baseline names up to two structs under features and at most
\* one under properties: the short names, the roots, structs that extend a
\* root, a struct that extends a struct that extends a root, a struct with
\* no sType, and structs of the other area.
ChainedFeatures ==
    {"VkPhysicalDeviceFeatures", "VkPhysicalDeviceFeatures2",
     "VkPhysicalDeviceVulkan12Features", "VkPhysicalDeviceChainedFeatures",
     "VkPhysicalDeviceUnchainableFeatures", "VkExtent3D",
     "VkPhysicalDeviceSyntheticProperties"}
ChainedProperties ==
    {"VkPhysicalDeviceProperties", "VkPhysicalDeviceProperties2",
     "VkPhysicalDeviceSyntheticProperties", "VkPhysicalDeviceVulkan12Features"}
NamingAll(names) ==
    IF names = <<>> THEN Absent
    ELSE Dict([i \in 1..Len(names) |-> Item(names[i], Dict(<<>>))])
\* Three structs of an area, the short struct and its wrapper among them or
\* not; the profile names the extension that defines the portability struct.
LongChains ==
    {<<<<"VkPhysicalDeviceVulkan12Features", "VkPhysicalDeviceFeatures",
         "VkPhysicalDeviceFeatures2">>, <<>>>>,
     <<<<"VkPhysicalDeviceFeatures", "VkPhysicalDeviceVulkan12Features",
         "VkPhysicalDevicePortabilitySubsetFeaturesKHR">>, <<>>>>,
     <<<<>>, <<"VkPhysicalDeviceSyntheticProperties", "VkPhysicalDeviceProperties2",
               "VkPhysicalDeviceProperties">>>>,
     <<<<"VkPhysicalDeviceVulkan12Features">>,
       <<"VkPhysicalDeviceSyntheticProperties", "VkPhysicalDeviceProperties">>>>}
ChainingDirs ==
    {OneProfile("VP_TEST_chain", ApiVersion(1, 2, 0), <<"baseline", "extra">>,
                [EmptyFragment EXCEPT !.features = NamingAll(f), !.properties = NamingAll(q)],
                EmptyFragment) :
        f \in {f \in SeqsUpTo(ChainedFeatures, 2) : Len(f) = 2 => f[1] # f[2]},
        q \in SeqsUpTo(ChainedProperties, 1)}
    \cup
    {OneProfile("VP_TEST_chain", ApiVersion(1, 2, 0), <<"baseline", "extra">>,
                [EmptyFragment EXCEPT
                    !.extensions = Extensions(<<"VK_KHR_portability_subset">>, "1"),
                    !.features = NamingAll(c[1]), !.properties = NamingAll(c[2])],
                EmptyFragment) : c \in LongChains}

\* Walking: baseline gives the property struct, or VkPhysicalDeviceFeatures,
\* a value tree that names a member the struct does not have, alone, under
\* a member that is a struct, or after a member that has a value.
WalkedTrees ==
    {Dict(<<Item("mMissing", Scalar("int", "1"))>>),
     Dict(<<Item("mStruct", Dict(<<Item("missing", Scalar("int", "1"))>>))>>),
     Dict(<<Item("mIgnore", Dict(<<Item("missing", Scalar("int", "1"))>>))>>),
     Dict(<<Item("mMax", Scalar("int", "1")), Item("mMissing", Scalar("int", "1"))>>),
     Dict(<<Item("mMin", List(<<>>)), Item("mMissing", Scalar("int", "1"))>>),
     Dict(<<Item("mRange", Scalar("float", "1.0")), Item("mMissing", Scalar("int", "1"))>>),
     Dict(<<Item("mIgnore", Scalar("float", "1.0")), Item("mMissing", Scalar("int", "1"))>>)}
WalkingDirs ==
    {OneProfile("VP_TEST_walk", ApiVersion(1, 1, 0), <<"baseline", "extra">>,
                GivingProperty(m, v), EmptyFragment) :
        m \in {"mMissing"}, v \in {Scalar("int", "1"), List(<<>>), Dict(<<>>)}}
    \cup
    {OneProfile("VP_TEST_walk", ApiVersion(1, 1, 0), <<"baseline", "extra">>,
                [EmptyFragment EXCEPT !.properties =
                    Dict(<<Item("VkPhysicalDeviceSyntheticProperties", t)>>)],
                EmptyFragment) : t \in WalkedTrees}
    \cup
    {OneProfile("VP_TEST_walk", ApiVersion(1, 1, 0), <<"baseline", "extra">>,
                Giving(<<"features", "VkPhysicalDeviceFeatures", "missing">>,
                       Scalar("bool", "True")),
                EmptyFragment)}

\* Versioning: both fragments name extensions, with different spec
\* versions, in either order of the fragments.
VersioningDirs ==
    {OneProfile("VP_TEST_versions", ApiVersion(1, 1, 0), o,
                [EmptyFragment EXCEPT !.extensions =
                    Extensions(<<"VK_KHR_swapchain", "VK_KHR_surface">>, "1")],
                [EmptyFragment EXCEPT !.extensions = Extensions(names, "2")]) :
        o \in CapOrders,
        names \in {<<"VK_KHR_surface">>, <<"VK_KHR_swapchain">>,
                   <<"VK_KHR_surface", "VK_KHR_swapchain">>}}

\* Sharing: one file with two profiles over the same two fragments, which
\* give the same member, or queue families; each profile lists one of the
\* fragments or both.
SharedValues ==
    {Scalar("int", "1"), List(<<Scalar("int", "1")>>),
     Dict(<<Item("width", List(<<Scalar("int", "2")>>))>>)}
SharedFragments ==
    {<<Giving(<<"properties", "VkPhysicalDeviceSyntheticProperties", "mStruct">>, a),
       Giving(<<"properties", "VkPhysicalDeviceSyntheticProperties", "mStruct">>, b)>> :
        a \in SharedValues, b \in SharedValues}
    \cup
    {<<[EmptyFragment EXCEPT !.queueFamiliesProperties = List(<<QueueFamily("1")>>)],
       [EmptyFragment EXCEPT !.queueFamiliesProperties = List(<<QueueFamily("2")>>)]>>}
SharedCapNames == {<<"baseline">>, <<"extra">>} \cup CapOrders
SharingDirs ==
    {<<Item("a.json",
            Document(<<Item("VP_TEST_first", ProfileData(ApiVersion(1, 1, 0), c1)),
                       Item("VP_TEST_second", ProfileData(ApiVersion(1, 1, 0), c2))>>,
                     <<Item("baseline", f[1]), Item("extra", f[2])>>))>> :
        c1 \in SharedCapNames, c2 \in SharedCapNames, f \in SharedFragments}

\* ------------------------------------------------------- the specification
\* The state when the main program starts: a registry document and a
\* profiles directory, nothing loaded.
Init ==
    /\ registry = NoRegistry
    /\ \/ xml = TestXml /\ dir \in MergeDirs
       \/ xml = TestXml /\ dir \in CompareDirs
       \/ xml = TestXml /\ dir \in ResolveDirs
       \/ xml = TestXml /\ dir \in ListedDirs
       \/ xml = TestXml /\ dir \in RequiringDirs
       \/ xml = TestXml /\ dir \in RedefiningDirs
       \/ xml = TestXml /\ dir \in WrappingDirs
       \/ xml = TestXml /\ dir \in ChainingDirs
       \/ xml = TestXml /\ dir \in WalkingDirs
       \/ xml = TestXml /\ dir \in VersioningDirs
       \/ xml = TestXml /\ dir \in SharingDirs
       \/ xml \in RegistryDocs /\ dir = <<>>
    /\ filenames = <<>>
    /\ next = 1
    /\ profiles = <<>>
    /\ pc = "VulkanRegistry"
    /\ raised = NotRaised
    /\ out = NoOutput
    /\ call = NotCalled

Spec == Init /\ [][Next]_vars

\* ------------------------------------------------------------- properties
\* What the properties speak of, read off the state. <<i, j>> is profile j of
\* file i of the directory. The profiles map tells what became of a profile
\* whose name the directory defines once; these are the Declared ones. A
\* name that two files define is the subject of C14.
Defined == UNION {{<<i, j>> : j \in 1..Len(dir[i].val.profiles)} : i \in 1..Len(dir)}
Declared ==
    {e \in Defined :
        \A d \in Defined :
            dir[d[1]].val.profiles[d[2]].key = dir[e[1]].val.profiles[e[2]].key => d = e}
NameOf(e) == dir[e[1]].val.profiles[e[2]].key
DataOf(e) == dir[e[1]].val.profiles[e[2]].val
\* The fragments of a profile in the order the profile lists them.
FragmentsOf(e) ==
    [k \in 1..Len(DataOf(e).capabilities) |->
        DictGet(dir[e[1]].val.capabilities, DataOf(e).capabilities[k])]

\* The run ended while the profiles were loaded.
LoadFailed == pc = "failed" /\ registry # NoRegistry /\ ~out.h.opened
Position(i) == CHOOSE k \in 1..Len(filenames) : filenames[k] = dir[i].key
FirstUnresolved(i) ==
    CHOOSE j \in 1..Len(dir[i].val.profiles) :
        /\ ~DictHas(profiles, dir[i].val.profiles[j].key)
        /\ \A l \in 1..(j - 1) : DictHas(profiles, dir[i].val.profiles[l].key)
\* Resolving the profile has ended, with a profile or with an error.
Attempted(e) ==
    /\ filenames # <<>>
    /\ \/ Position(e[1]) < next
       \/ Position(e[1]) = next /\ LoadFailed /\ e[2] <= FirstUnresolved(e[1])
IsResolved(e) == Attempted(e) /\ DictHas(profiles, NameOf(e))
ResolutionFailed(e) == Attempted(e) /\ ~DictHas(profiles, NameOf(e))
CapabilitiesOf(e) == DictGet(profiles, NameOf(e)).capabilities
NothingWritten == ~out.h.opened /\ ~out.cpp.opened /\ ~out.hpp.opened

\* The sections mergeProfileCapData merges.
DataSections == {"features", "properties", "formats", "memoryProperties"}

\* The kind of a JSON value.
Kind(x) ==
    IF PyType(x) = "dict" THEN "object"
    ELSE IF PyType(x) = "list" THEN "array" ELSE "scalar"

\* Two values given for the same place are of different kinds, or are
\* objects that give values of different kinds for some key.
RECURSIVE Clash(_, _)
Clash(a, b) ==
    IF Kind(a) = "object" /\ Kind(b) = "object"
    THEN \E i \in 1..Len(a.items) :
            /\ VHas(b, a.items[i].key)
            /\ Clash(a.items[i].val, VGet(b, a.items[i].key))
    ELSE Kind(a) # Kind(b)

\* Two fragments of the profile clash in a section both give.
KindMismatch(e) ==
    \E k, l \in 1..Len(FragmentsOf(e)) : \E s \in DataSections :
        /\ k < l
        /\ ~IsAbsent(FragmentsOf(e)[k][s])
        /\ ~IsAbsent(FragmentsOf(e)[l][s])
        /\ Clash(FragmentsOf(e)[k][s], FragmentsOf(e)[l][s])

\* Every extension the profile's fragments name is registered as an instance
\* or a device extension.
ExtensionsOf(frag) ==
    IF IsAbsent(frag.extensions) THEN <<>> ELSE DictKeys(frag.extensions.items)
ExtensionsClassified(e) ==
    \A k \in 1..Len(FragmentsOf(e)) :
        \A x \in 1..Len(ExtensionsOf(FragmentsOf(e)[k])) :
            /\ DictHas(registry.extensions, ExtensionsOf(FragmentsOf(e)[k])[x])
            /\ DictGet(registry.extensions, ExtensionsOf(FragmentsOf(e)[k])[x]).type
                   \in {"instance", "device"}

PlacesOf(frag) ==
    UNION {UNION {{<<s, frag[s].items[i].key, frag[s].items[i].val.items[j].key>> :
                      j \in 1..Len(frag[s].items[i].val.items)} :
                  i \in {i \in 1..Len(frag[s].items) :
                            Kind(frag[s].items[i].val) = "object"}} :
           s \in {s \in DataSections : Kind(frag[s]) = "object"}}
Gives(frag, place) == place \in PlacesOf(frag)
ValueAt(section, place) == VGet(VGet(section, place[2]), place[3])

\* C6 as stated: when two fragments of a profile set the same member to
\* scalars and no later fragment gives the member, the profile is resolved
\* and holds the value of the later of the two.
C6_LaterScalarWins ==
    \A e \in Declared : \A k, l \in 1..Len(FragmentsOf(e)) :
        \A place \in PlacesOf(FragmentsOf(e)[k]) :
            (/\ Attempted(e) /\ ExtensionsClassified(e)
             /\ k < l
             /\ Gives(FragmentsOf(e)[l], place)
             /\ \A n \in (l + 1)..Len(FragmentsOf(e)) : ~Gives(FragmentsOf(e)[n], place)
             /\ Kind(ValueAt(FragmentsOf(e)[k][place[1]], place)) = "scalar"
             /\ Kind(ValueAt(FragmentsOf(e)[l][place[1]], place)) = "scalar")
            => /\ IsResolved(e)
               /\ ValueAt(CapabilitiesOf(e)[place[1]], place)
                      = ValueAt(FragmentsOf(e)[l][place[1]], place)

\* The values the objects among givers hold at key, in order.
GivenAt(givers, key) ==
    LET with == SelectSeq(givers, LAMBDA g : Kind(g) = "object" /\ VHas(g, key))
    IN  [j \in 1..Len(with) |-> VGet(with[j], key)]
ItemsOf(lists) == Flatten([j \in 1..Len(lists) |-> lists[j].items])

\* Every array in merged, at any depth, is the concatenation of the arrays
\* the givers hold at its place, in the order of givers.
RECURSIVE ArraysConcatenated(_, _)
ArraysConcatenated(merged, givers) ==
    \A i \in 1..Len(merged.items) :
        LET key == merged.items[i].key
            val == merged.items[i].val
        IN  IF Kind(val) = "array"
            THEN /\ \A j \in 1..Len(GivenAt(givers, key)) :
                        Kind(GivenAt(givers, key)[j]) = "array"
                 /\ val.items = ItemsOf(GivenAt(givers, key))
            ELSE IF Kind(val) = "object"
            THEN ArraysConcatenated(val, GivenAt(givers, key))
            ELSE TRUE

\* What the fragments of the profile give for a section, in listing order.
GiversOf(e, section) ==
    LET with == SelectSeq(FragmentsOf(e), LAMBDA f : ~IsAbsent(f[section]))
    IN  [j \in 1..Len(with) |-> with[j][section]]

\* C7: in a resolved profile every array-valued member of features,
\* properties, formats and memoryProperties is the concatenation of the
\* arrays its fragments give for the member, in the order the profile lists
\* the fragments, and queueFamiliesProperties is the concatenation of the
\* fragments' lists in that order.
C7_ArraysConcatenateInListingOrder ==
    \A e \in Declared :
        IsResolved(e) =>
            /\ \A s \in DataSections :
                   ArraysConcatenated(CapabilitiesOf(e)[s], GiversOf(e, s))
            /\ CapabilitiesOf(e).queueFamiliesProperties
                   = ItemsOf(GiversOf(e, "queueFamiliesProperties"))

\* C7 witness: a resolved profile of two fragments that give different
\* non-empty arrays for the same member, so that the order shows.
C7_Witness ==
    \E e \in Declared :
        /\ IsResolved(e)
        /\ Len(FragmentsOf(e)) = 2
        /\ \E place \in PlacesOf(FragmentsOf(e)[1]) :
               /\ Gives(FragmentsOf(e)[2], place)
               /\ Kind(ValueAt(CapabilitiesOf(e)[place[1]], place)) = "array"
               /\ ValueAt(FragmentsOf(e)[1][place[1]], place).items # <<>>
               /\ ValueAt(FragmentsOf(e)[2][place[1]], place).items # <<>>
               /\ ValueAt(FragmentsOf(e)[1][place[1]], place)
                      # ValueAt(FragmentsOf(e)[2][place[1]], place)
               /\ ValueAt(CapabilitiesOf(e)[place[1]], place).items
                      = ValueAt(FragmentsOf(e)[1][place[1]], place).items
                            \o ValueAt(FragmentsOf(e)[2][place[1]], place).items

\* The generated files, read off out: the body of a part of a file, and the
\* entry of a profile in a generated sequence.
HasPart(file, part) == \E i \in 1..Len(out[file].parts) : out[file].parts[i].part = part
PartOf(file, part) ==
    out[file].parts[CHOOSE i \in 1..Len(out[file].parts) :
                        out[file].parts[i].part = part].body
EntryOf(entries, name) ==
    entries[CHOOSE i \in 1..Len(entries) : entries[i].name = name]
\* The checks vpGetDeviceProfileSupport makes for an area of a profile.
ChecksOf(file, e, area) ==
    LET block == EntryOf(PartOf(file, "gen_publicImpl").vpGetDeviceProfileSupport,
                         NameOf(e))[area]
    IN  IF block.emitted THEN block.checks ELSE <<>>
ChecksAt(checks, devicePath) == SelectSeq(checks, LAMBDA c : c.dev.path = devicePath)

\* The variable (and wrapped member) the generated code holds a struct of a
\* profile file in.
VarPath(side, area, structName) ==
    IF area = "features" /\ structName = "VkPhysicalDeviceFeatures"
    THEN <<side, "VkPhysicalDeviceFeatures2", "features">>
    ELSE IF area = "properties" /\ structName = "VkPhysicalDeviceProperties"
    THEN <<side, "VkPhysicalDeviceProperties2", "properties">>
    ELSE <<side, structName>>
FmtOf(area) == IF area = "features" THEN FeaturesFmt ELSE PropertiesFmt

\* The predicate the table of limittypes gives.
TabledLimittypes == {"bitmask", "max", "min", "noauto", "struct", None}
ExpectedPredicate(limittype) ==
    IF limittype = "bitmask" THEN "(({0} & {1}) == {1})"
    ELSE IF limittype = "max" THEN "({0} >= {1})"
    ELSE IF limittype = "min" THEN "({0} <= {1})"
    ELSE "({0} == {1})"

\* gen_compareStructVar descends into an object value of a member of a struct
\* type unless the member's limittype is IGNORE or unsupported.
Descends(structName, member, value) ==
    /\ Kind(value) = "object"
    /\ DictGet(DictGet(registry.structs, structName).members, member).limittype
           \in TabledLimittypes \cup {"range"}
    /\ DictHas(registry.structs,
               DictGet(DictGet(registry.structs, structName).members, member).type)

\* Every (member, value) of values with a scalar value, at any depth the
\* emitter reaches, has in checks exactly the predicate of its limittype, or
\* nothing when the limittype is IGNORE.
RECURSIVE PairsCompared(_, _, _, _, _, _)
PairsCompared(structName, devicePath, profilePath, values, checks, fmt) ==
    \A i \in 1..Len(values.items) :
        LET member == values.items[i].key
            value == values.items[i].val
            info == DictGet(DictGet(registry.structs, structName).members, member)
        IN  DictHas(DictGet(registry.structs, structName).members, member) =>
                IF Kind(value) = "scalar"
                THEN IF info.limittype = "IGNORE"
                     THEN ChecksAt(checks, Append(devicePath, member)) = <<>>
                     ELSE /\ info.limittype \in TabledLimittypes
                          /\ ChecksAt(checks, Append(devicePath, member))
                                 = <<Pred(fmt, ExpectedPredicate(info.limittype),
                                          Operand(Append(devicePath, member), NoIndex),
                                          Operand(Append(profilePath, member), NoIndex))>>
                ELSE Descends(structName, member, value) =>
                         PairsCompared(info.type, Append(devicePath, member),
                                       Append(profilePath, member), value, checks, fmt)

\* Some (member, value) the emitter reaches has a scalar value and a
\* limittype that is neither in the table nor IGNORE.
RECURSIVE HasUntabledPair(_, _)
HasUntabledPair(structName, values) ==
    \E i \in 1..Len(values.items) :
        LET member == values.items[i].key
            value == values.items[i].val
            info == DictGet(DictGet(registry.structs, structName).members, member)
        IN  /\ DictHas(DictGet(registry.structs, structName).members, member)
            /\ IF Kind(value) = "scalar"
               THEN info.limittype \notin TabledLimittypes \cup {"IGNORE"}
               ELSE /\ Descends(structName, member, value)
                    /\ HasUntabledPair(info.type, value)

\* The registered structs a resolved profile holds in an area, as items.
StructsOf(e, area) ==
    SelectSeq(CapabilitiesOf(e)[area].items,
              LAMBDA it : DictHas(registry.structs, it.key) /\ Kind(it.val) = "object")

GivesOnly(e, place) ==
    \A k \in 1..Len(FragmentsOf(e)) :
        /\ PlacesOf(FragmentsOf(e)[k]) \subseteq {place}
        /\ IsAbsent(FragmentsOf(e)[k].queueFamiliesProperties)

\* C4 as stated: once generate_cpp has run on a resolved profile that holds
\* an array for an is_array member of limittype range (and for nothing
\* else), vulkan_profiles.cpp holds for the member exactly the pair
\* device[0] <= profile[0], device[1] >= profile[1].
C4_RangePairForEveryArray ==
    \A e \in Declared : \A area \in {"features", "properties"} :
        (IsResolved(e) /\ out.cpp.opened) =>
            \A i \in 1..Len(StructsOf(e, area)) :
                \A j \in 1..Len(StructsOf(e, area)[i].val.items) :
                    LET struct == StructsOf(e, area)[i]
                        member == struct.val.items[j].key
                        members == DictGet(registry.structs, struct.key).members
                        device == Append(VarPath("device", area, struct.key), member)
                        profile == Append(VarPath("profile", area, struct.key), member)
                    IN  (/\ DictHas(members, member)
                         /\ DictGet(members, member).isArray
                         /\ DictGet(members, member).limittype = "range"
                         /\ Kind(struct.val.items[j].val) = "array"
                         /\ GivesOnly(e, <<area, struct.key, member>>))
                        => /\ HasPart("cpp", "gen_publicImpl")
                           /\ ChecksAt(ChecksOf("cpp", e, area), device)
                                  = <<Pred(FmtOf(area), "({0} <= {1})",
                                           Operand(device, 0), Operand(profile, 0)),
                                      Pred(FmtOf(area), "({0} >= {1})",
                                           Operand(device, 1), Operand(profile, 1))>>

\* A version string as the numbers <<major, minor>>.
RECURSIVE NumberOf(_)
NumberOf(digits) ==
    IF digits = <<>> THEN 0
    ELSE NumberOf(SubSeq(digits, 1, Len(digits) - 1)) * 10 + (digits[Len(digits)] - 48)
MajorMinor(s) ==
    LET rest == SubSeq(s, DigitRun(s) + 2, Len(s))
    IN  <<NumberOf(SubSeq(s, 1, DigitRun(s))), NumberOf(SubSeq(rest, 1, DigitRun(rest)))>>
VersionLe(a, b) == a[1] < b[1] \/ (a[1] = b[1] /\ a[2] <= b[2])

\* A struct's dependency is satisfied by an api-version or a set of
\* extension names.
Satisfied(structDef, apiVersion, extNames) ==
    \/ /\ structDef.definedByVersion # NoVersion
       /\ VersionLe(MajorMinor(structDef.definedByVersion), MajorMinor(apiVersion))
    \/ \E i \in 1..Len(structDef.definedByExtensions) :
           structDef.definedByExtensions[i] \in extNames

KeysOf(x) == IF Kind(x) = "object" THEN {x.items[i].key : i \in 1..Len(x.items)} ELSE {}
\* The structs a resolved profile names in its features, properties, queue
\* family records and memory properties.
StructsNamedIn(caps) ==
    KeysOf(caps.features) \cup KeysOf(caps.properties) \cup KeysOf(caps.memoryProperties)
        \cup UNION {KeysOf(caps.queueFamiliesProperties[i]) :
                        i \in 1..Len(caps.queueFamiliesProperties)}
\* The same for a fragment.
StructsNamedBy(frag) ==
    KeysOf(frag.features) \cup KeysOf(frag.properties) \cup KeysOf(frag.memoryProperties)
        \cup (IF Kind(frag.queueFamiliesProperties) = "array"
              THEN UNION {KeysOf(frag.queueFamiliesProperties.items[i]) :
                              i \in 1..Len(frag.queueFamiliesProperties.items)}
              ELSE {})
\* The extensions the fragments of a profile name.
AllExtensions(e) ==
    UNION {{ExtensionsOf(FragmentsOf(e)[k])[x] :
                x \in 1..Len(ExtensionsOf(FragmentsOf(e)[k]))} :
           k \in 1..Len(FragmentsOf(e))}

\* C2 as stated: every struct a resolved profile names in its features,
\* properties, queue family records and memory properties is registered, and
\* its defining version is at most the profile's api-version, both read as
\* major.minor numbers, or one of its defining extensions is among the
\* profile's merged extensions.
C2_DependencySoundness ==
    \A e \in Declared :
        IsResolved(e) =>
            \A name \in StructsNamedIn(CapabilitiesOf(e)) :
                /\ DictHas(registry.structs, name)
                /\ Satisfied(DictGet(registry.structs, name), DataOf(e).apiVersion,
                             {CapabilitiesOf(e).extensions[x].key :
                                  x \in 1..Len(CapabilitiesOf(e).extensions)})

\* C3 as stated: when a fragment of a profile names, in features, properties,
\* a queue family record or memory properties, a registered struct that
\* neither the profile's api-version nor any extension of its fragments
\* satisfies, resolving the profile ends the run and no output file is
\* opened.
C3_UnsatisfiedDependencyEndsRun ==
    \A e \in Declared :
        (/\ Attempted(e)
         /\ \E k \in 1..Len(FragmentsOf(e)) : \E name \in StructsNamedBy(FragmentsOf(e)[k]) :
                /\ DictHas(registry.structs, name)
                /\ ~Satisfied(DictGet(registry.structs, name), DataOf(e).apiVersion,
                              AllExtensions(e)))
        => /\ ResolutionFailed(e)
           /\ pc = "failed"
           /\ raised.err \in {"fatal", "crash"}
           /\ NothingWritten

\* The array of a kind in a profile's private data, empty when not emitted.
EmittedNames(array) ==
    IF array.emitted THEN [i \in 1..Len(array.entries) |-> array.entries[i].name]
    ELSE <<>>
PrivateDataOf(file, e) == EntryOf(PartOf(file, "gen_privateImpl").privateData, NameOf(e))
Count(names, name) == Cardinality({i \in 1..Len(names) : names[i] = name})
KindOfExtension(name) == DictGet(registry.extensions, name).type
UpperCaseName(name) == DictGet(registry.extensions, name).upperCaseName

\* C8: every extension of a resolved profile's merged extensions is
\* registered as instance or device, is in the map of exactly that kind, and
\* is emitted once in the array of that kind and not in the other, in every
\* file whose private data is written.
C8_ExtensionClassificationTotality ==
    \A e \in Declared :
        IsResolved(e) =>
            \A x \in 1..Len(CapabilitiesOf(e).extensions) :
                LET name == CapabilitiesOf(e).extensions[x].key
                IN  /\ KindOfExtension(name) \in {"instance", "device"}
                    /\ DictHas(CapabilitiesOf(e).instanceExtensions, name)
                           <=> KindOfExtension(name) = "instance"
                    /\ DictHas(CapabilitiesOf(e).deviceExtensions, name)
                           <=> KindOfExtension(name) = "device"
                    /\ \A file \in {"cpp", "hpp"} :
                           HasPart(file, "gen_privateImpl") =>
                               /\ Count(EmittedNames(PrivateDataOf(file, e).instance),
                                        UpperCaseName(name))
                                      = IF KindOfExtension(name) = "instance" THEN 1 ELSE 0
                               /\ Count(EmittedNames(PrivateDataOf(file, e).device),
                                        UpperCaseName(name))
                                      = IF KindOfExtension(name) = "device" THEN 1 ELSE 0

\* C8 witness: vulkan_profiles.cpp holds the private data of a resolved
\* profile with an instance extension and a device extension.
C8_Witness ==
    \E e \in Declared :
        /\ IsResolved(e)
        /\ HasPart("cpp", "gen_privateImpl")
        /\ Len(CapabilitiesOf(e).instanceExtensions) > 0
        /\ Len(CapabilitiesOf(e).deviceExtensions) > 0

\* The elements of a sequence in the order of their first occurrence.
RECURSIVE FirstOccurrences(_)
FirstOccurrences(names) ==
    IF names = <<>> THEN <<>>
    ELSE LET front == FirstOccurrences(SubSeq(names, 1, Len(names) - 1))
             last == names[Len(names)]
         IN  IF \E i \in 1..Len(front) : front[i] = last THEN front
             ELSE Append(front, last)
\* The extensions of a profile in the order its fragments introduce them.
FirstIntroduced(e) ==
    FirstOccurrences(Flatten([k \in 1..Len(FragmentsOf(e)) |->
                                  ExtensionsOf(FragmentsOf(e)[k])]))
IntroducedOfKind(e, kind) ==
    LET names == SelectSeq(FirstIntroduced(e), LAMBDA n : KindOfExtension(n) = kind)
    IN  [i \in 1..Len(names) |-> UpperCaseName(names[i])]

\* C9: in every file whose private data is written, the entries of each
\* extension array of a resolved profile are in the order in which the
\* profile's fragments, in listing order, first name the extensions; an
\* extension a later fragment names again stays where it was.
C9_ExtensionOrderPreserved ==
    \A e \in Declared : \A file \in {"cpp", "hpp"} :
        (IsResolved(e) /\ HasPart(file, "gen_privateImpl")) =>
            /\ EmittedNames(PrivateDataOf(file, e).instance)
                   = IntroducedOfKind(e, "instance")
            /\ EmittedNames(PrivateDataOf(file, e).device)
                   = IntroducedOfKind(e, "device")

\* C9 witness: the device array written has two entries, and the extension
\* of the first is named by both fragments of the profile.
C9_Witness ==
    \E e \in Declared :
        /\ IsResolved(e)
        /\ HasPart("cpp", "gen_privateImpl")
        /\ Len(FragmentsOf(e)) = 2
        /\ Len(EmittedNames(PrivateDataOf("cpp", e).device)) = 2
        /\ \E n \in AllExtensions(e) :
               /\ UpperCaseName(n) = EmittedNames(PrivateDataOf("cpp", e).device)[1]
               /\ \A k \in 1..2 :
                      \E x \in 1..Len(ExtensionsOf(FragmentsOf(e)[k])) :
                          ExtensionsOf(FragmentsOf(e)[k])[x] = n

\* loadFromDir as a function of what os.listdir returns: the profiles map, or
\* what the first failing file raised.
RECURSIVE LoadListed(_, _, _, _, _)
LoadListed(reg, d, listing, i, profs) ==
    IF i > Len(listing) THEN Ok(profs)
    ELSE Then(parseProfiles(reg, profs, DictGet(d, listing[i]).profiles,
                            DictGet(d, listing[i]).capabilities, 1),
              LAMBDA loaded : LoadListed(reg, d, listing, i + 1, loaded))
\* The three files of a run that loads the files in this order.
Written(h, cpp, hpp) ==
    [h |-> h.file, cpp |-> cpp.file,
     hpp |-> IF cpp.raised.err = "none" THEN hpp.file ELSE NotOpened]
OutputsFor(listing) ==
    LET loaded == LoadListed(registry, dir, listing, 1, <<>>)
    IN  IF Failed(loaded) THEN NoOutput
        ELSE Written(generate_h(loaded.val), generate_cpp(registry, loaded.val),
                     generate_hpp(registry, loaded.val))

\* C10 as stated: the files a completed run has written are the files the
\* run writes for every order in which the directory listing can return the
\* profile files.
C10_OutputsIndependentOfListing ==
    pc = "done" => \A listing \in Listings(dir) : OutputsFor(listing) = out

\* ------------------------------------------------- properties of the registry
\* The registry is loaded: the loader returned it.
RegistryLoaded == registry # NoRegistry
StructOf(name) == DictGet(registry.structs, name)
StructNamesOf(reg) == {reg.structs[i].key : i \in 1..Len(reg.structs)}

\* The enum declarations of the document, and the enum a name stands for:
\* alias declarations are followed to a name that is declared no alias.
DeclaredEnums ==
    Flatten([i \in 1..Len(xml.features) |-> xml.features[i].enums])
    \o Flatten([i \in 1..Len(xml.extensions) |-> xml.extensions[i].enums])
AliasDeclarations(name) ==
    {i \in 1..Len(DeclaredEnums) :
        /\ DeclaredEnums[i].alias # None
        /\ DeclaredEnums[i].suffix = ""
        /\ DeclaredEnums[i].stem = name}
RECURSIVE Canonical(_)
Canonical(name) ==
    IF AliasDeclarations(name) = {} THEN name
    ELSE Canonical(DeclaredEnums[CHOOSE i \in AliasDeclarations(name) : TRUE].alias)

\* C11: Alias closure. Once the registry is loaded, every struct named in
\* the aliases list of a struct is a struct of the registry with the same
\* members and an sType that stands for the same enum, whatever the document
\* order of the type elements and for aliases of aliases too.
C11_AliasClosure ==
    RegistryLoaded =>
        \A name \in StructNamesOf(registry) :
            \A k \in 1..Len(StructOf(name).aliases) :
                /\ DictHas(registry.structs, StructOf(name).aliases[k])
                /\ StructOf(StructOf(name).aliases[k]).members = StructOf(name).members
                /\ Canonical(StructOf(StructOf(name).aliases[k]).sType)
                        = Canonical(StructOf(name).sType)

\* The registry the alias pass of the loader starts from.
Prepared ==
    Then(parseVersionInfo(<<>>, xml.features, 1), LAMBDA versions :
    Then(parseExtensionInfo(<<>>, xml.extensions, 1), LAMBDA extensions :
    Ok(parsePrerequisites(
        parseStructInfo([EmptyRegistry EXCEPT !.versions = versions,
                                               !.extensions = extensions],
                        xml.types, 1),
        xml))))
\* The type elements that declare an alias, and those of them that name a
\* struct declared with an sType of its own.
AliasTypes == {i \in 1..Len(xml.types) : xml.types[i].alias # None}
DeclaredWith(name) == {i \in 1..Len(xml.types) : xml.types[i].name = name}
DirectAliasTypes ==
    {i \in AliasTypes :
        \E b \in DeclaredWith(xml.types[i].alias) :
            xml.types[b].alias = None /\ StructSType(xml.types[b]) # None}
DirectSType(i) ==
    StructSType(xml.types[CHOOSE b \in DeclaredWith(xml.types[i].alias) : TRUE])

\* The entry for sType that a search in the claimed order finds for the
\* struct aliasDef of reg: the tables of the versions whose number is at
\* most that of aliasDef's version, as major.minor numbers, then the tables
\* of aliasDef's extensions; None when no table has one.
VersionTablesFor(reg, aliasDef, sType) ==
    {v \in 1..Len(reg.versions) :
        /\ aliasDef.definedByVersion # NoVersion
        /\ VersionLe(MajorMinor(reg.versions[v].key), MajorMinor(aliasDef.definedByVersion))
        /\ DictHas(reg.versions[v].val.sTypeAliases, sType)}
ExtensionTablesFor(reg, aliasDef, sType) ==
    {x \in 1..Len(aliasDef.definedByExtensions) :
        /\ DictHas(reg.extensions, aliasDef.definedByExtensions[x])
        /\ DictHas(DictGet(reg.extensions, aliasDef.definedByExtensions[x]).sTypeAliases, sType)}
Least(S) == CHOOSE i \in S : \A j \in S : i <= j
ExpectedSTypeAlias(reg, aliasDef, sType) ==
    IF VersionTablesFor(reg, aliasDef, sType) # {}
    THEN DictGet(reg.versions[Least(VersionTablesFor(reg, aliasDef, sType))].val.sTypeAliases,
                 sType)
    ELSE IF ExtensionTablesFor(reg, aliasDef, sType) # {}
    THEN DictGet(DictGet(reg.extensions,
                         aliasDef.definedByExtensions[
                            Least(ExtensionTablesFor(reg, aliasDef, sType))]).sTypeAliases,
                 sType)
    ELSE None

\* C12: once the registry is loaded, the sType of every alias struct whose
\* base has an sType is the first entry for the base's sType in the tables
\* of the versions up to the alias's version, compared as major.minor
\* numbers, then in the tables of its extensions. When the tables searched
\* in that order have no entry for an alias of a struct declared with an
\* sType, loading ends with an error.
C12_STypeAliasResolution ==
    /\ RegistryLoaded =>
        \A i \in AliasTypes :
            StructOf(xml.types[i].alias).sType # None =>
                StructOf(xml.types[i].name).sType
                    = ExpectedSTypeAlias(registry, StructOf(xml.types[i].name),
                                         StructOf(xml.types[i].alias).sType)
    /\ (/\ pc # "VulkanRegistry"
        /\ ~Failed(Prepared)
        /\ \E i \in DirectAliasTypes :
                ExpectedSTypeAlias(Prepared.val,
                                   DictGet(Prepared.val.structs, xml.types[i].name),
                                   DirectSType(i)) = None)
       => pc = "failed"

\* The features whose require lists reference the struct, and the names of
\* the extensions whose require lists do, in document order.
FeaturesRequiring(name) ==
    {f \in 1..Len(xml.features) :
        \E t \in 1..Len(xml.features[f].types) : xml.features[f].types[t] = name}
ExtensionsRequiring(name) ==
    LET requiring == SelectSeq(xml.extensions,
                               LAMBDA ext : \E t \in 1..Len(ext.types) : ext.types[t] = name)
    IN  [x \in 1..Len(requiring) |-> requiring[x].name]

\* C13: once the registry is loaded, the definedByVersion of a struct that
\* the require lists of features reference is the number of the first such
\* feature in document order, and its definedByExtensions are the extensions
\* whose require lists reference it, in document order.
C13_FirstVersionAllExtensions ==
    RegistryLoaded =>
        \A name \in StructNamesOf(registry) :
            /\ FeaturesRequiring(name) # {} =>
                    StructOf(name).definedByVersion
                        = xml.features[Least(FeaturesRequiring(name))].number
            /\ StructOf(name).definedByExtensions = ExtensionsRequiring(name)

\* Whether the document declares the member with limittype bitmask and the
\* type VkBool32, and the members the table of the workarounds assigns, as
\* <<struct name, member name>>.
DeclaredBitmaskFlag(name, member) ==
    \E t \in 1..Len(xml.types) :
        /\ xml.types[t].name = name
        /\ \E m \in 1..Len(xml.types[t].members) :
            /\ xml.types[t].members[m].name = member
            /\ xml.types[t].members[m].limittype = "bitmask"
            /\ xml.types[t].members[m].type = "VkBool32"
TableAssigns == {<<Workarounds[w][1], Workarounds[w][2]>> : w \in 1..Len(Workarounds)}
\* The names under which the registry holds the members dict of a struct:
\* its own and those of its aliases list.
SharedNames(name) ==
    {name} \cup {StructOf(name).aliases[k] : k \in 1..Len(StructOf(name).aliases)}

C18_WorkaroundsIdempotent ==
    (pc = "loadFromDir" /\ ~Failed(VulkanRegistry(xml))) =>
        /\ Resolved(VulkanRegistry(xml).val) = registry
        /\ applyWorkarounds(VulkanRegistry(xml).val) = Ok(VulkanRegistry(xml).val)
\* The registry was loaded from a document that declares a bitmask VkBool32
\* and an alias of VkPhysicalDeviceLimits, and the table and the patch have
\* changed limittypes.
C18_Witness ==
    /\ pc = "loadFromDir"
    /\ RegistryLoaded
    /\ DeclaredBitmaskFlag("VkBase", "flag")
    /\ DictGet(StructOf("VkBase").members, "flag").limittype = "noauto"
    /\ DictGet(StructOf("VkPhysicalDeviceLimitsKHR").members, "timestampPeriod").limittype
        = "IGNORE"

\* ------------------------------------------------ properties of the loading
\* Two files of the directory define a profile of the same name.
Redefinitions ==
    {de \in Defined \X Defined :
        /\ de[1][1] # de[2][1]
        /\ NameOf(de[1]) = NameOf(de[2])}
LoadingCompleted == pc \in {"generate_h", "generate_cpp", "generate_hpp", "done"} \/ out.h.opened

\* C14: when two files of the directory define a profile of the same name,
\* loading does not complete, and the profile held under the name is never
\* that of the file listed later.
C14_DuplicateNameEndsLoading ==
    /\ Redefinitions # {} => ~LoadingCompleted
    /\ \A de \in Redefinitions :
        (/\ filenames # <<>>
         /\ Position(de[1][1]) < Position(de[2][1])
         /\ DictHas(profiles, NameOf(de[1])))
        => DictGet(profiles, NameOf(de[1])).apiVersion = DataOf(de[1]).apiVersion

\* The lengths of the prefixes of an api-version that are a major.minor
\* number, and the longest such prefix.
NumberPrefixes(apiVersion) ==
    {k \in 1..Len(apiVersion) : IsVersionNumber(SubSeq(apiVersion, 1, k))}
MajorMinorPrefix(apiVersion) ==
    SubSeq(apiVersion, 1,
           CHOOSE k \in NumberPrefixes(apiVersion) :
                \A l \in NumberPrefixes(apiVersion) : l <= k)
HasRegistryVersion(apiVersion) ==
    /\ NumberPrefixes(apiVersion) # {}
    /\ DictHas(registry.versions, MajorMinorPrefix(apiVersion))

\* C15: the requirements of a resolved profile are the name of the registry
\* version whose number is the major.minor prefix of the profile's
\* api-version, then the extensions of the merged extension set, each once
\* and in insertion order. A profile whose api-version has no such prefix,
\* or one that is no version of the registry, does not resolve.
C15_RequirementsList ==
    \A e \in Declared :
        /\ IsResolved(e) =>
            /\ HasRegistryVersion(DataOf(e).apiVersion)
            /\ DictGet(profiles, NameOf(e)).requirements
                = <<DictGet(registry.versions, MajorMinorPrefix(DataOf(e).apiVersion)).name>>
                  \o DictKeys(CapabilitiesOf(e).extensions)
            /\ \A x, y \in 1..Len(CapabilitiesOf(e).extensions) :
                    CapabilitiesOf(e).extensions[x].key = CapabilitiesOf(e).extensions[y].key
                        => x = y
        /\ (Attempted(e) /\ ~HasRegistryVersion(DataOf(e).apiVersion)) =>
            /\ ResolutionFailed(e)
            /\ LoadFailed
            /\ raised.err = "fatal"
\* A profile of version 1.10 with two extensions is resolved.
C15_Witness ==
    \E e \in Declared :
        /\ IsResolved(e)
        /\ Len(DictGet(profiles, NameOf(e)).requirements) = 3
        /\ DictGet(profiles, NameOf(e)).requirements[1] = "VK_VERSION_1_10"

\* ---------------------------------------------- properties of the emitted text
\* The lines gen_profileDefs wrote to a file, per profile and as one text.
DefsOf(file) == PartOf(file, "gen_profileDefs")
DirectivesAt(lines, directive) == {k \in 1..Len(lines) : lines[k].directive = directive}
\* The lines are one #if over the requirements in order, the four #define
\* lines of the profile called name, and one #endif.
GuardedDefinition(lines, name, requirements) ==
    /\ Len(lines) = Len(requirements) + 5
    /\ requirements # <<>>
    /\ DirectivesAt(lines, "#if") = {1}
    /\ DirectivesAt(lines, "") = 2..Len(requirements)
    /\ DirectivesAt(lines, "#define") = (Len(requirements) + 1)..(Len(requirements) + 4)
    /\ DirectivesAt(lines, "#endif") = {Len(requirements) + 5}
    /\ \A k \in 1..Len(requirements) :
        /\ lines[k].operand = <<"defined", requirements[k]>>
        /\ lines[k].continued = (k < Len(requirements))
    /\ lines[Len(requirements) + 1].operand[1] = name
    /\ \A k \in 2..4 : lines[Len(requirements) + k].operand[1] = Upper(name)
    /\ [k \in 1..4 |-> lines[Len(requirements) + k].operand[2]]
        = <<"", "_NAME", "_SPEC_VERSION", "_MIN_API_VERSION">>
\* Every #endif of the text closes the one #if open before it, and no #if
\* stays open.
Balanced(text) ==
    /\ \A k \in 1..Len(text) :
        Cardinality(DirectivesAt(SubSeq(text, 1, k), "#if"))
            - Cardinality(DirectivesAt(SubSeq(text, 1, k), "#endif")) \in {0, 1}
    /\ Cardinality(DirectivesAt(text, "#if")) = Cardinality(DirectivesAt(text, "#endif"))

\* C16: in both headers gen_profileDefs gives every profile one #if over
\* the conjunction of defined(r) for its requirements r in order, then its
\* four #define lines, then one #endif, and the directives of the whole text
\* are balanced.
C16_GuardedProfileDefinitions ==
    \A file \in {"h", "hpp"} :
        HasPart(file, "gen_profileDefs") =>
            /\ Len(DefsOf(file)) = Len(profiles)
            /\ \A p \in 1..Len(profiles) :
                GuardedDefinition(DefsOf(file)[p], profiles[p].key,
                                  profiles[p].val.requirements)
            /\ Balanced(Flatten(DefsOf(file)))
\* The header is written for two profiles, one of them with an extension.
C16_Witness ==
    /\ HasPart("hpp", "gen_profileDefs")
    /\ Len(profiles) = 2
    /\ \E p \in 1..2 : Len(profiles[p].val.requirements) = 2
    /\ Cardinality(DirectivesAt(Flatten(DefsOf("hpp")), "#endif")) = 2

\* ------------------------------------------- properties of the case blocks
\* The case blocks of the switch vpGetProfileStructures holds for a profile
\* in a file, and the feature and property structs of the profile's merged
\* capabilities.
CasesOf(file, e) ==
    EntryOf(PartOf(file, "gen_publicImpl").vpGetProfileStructures, NameOf(e)).cases
CaseStructs(e) == CapabilitiesOf(e).features.items \o CapabilitiesOf(e).properties.items
AreaOf(e, i) ==
    IF i <= Len(CapabilitiesOf(e).features.items) THEN "features" ELSE "properties"
\* The value holds something to assign: a scalar, an element of an array, or
\* such a value under a key of an object.
RECURSIVE HoldsValue(_)
HoldsValue(value) ==
    IF Kind(value) = "object"
    THEN \E m \in 1..Len(value.items) : HoldsValue(value.items[m].val)
    ELSE IF Kind(value) = "array" THEN Len(value.items) > 0 ELSE TRUE
\* The members a fragment sets in a struct of an area.
SetBy(fragment, area, structName) ==
    IF IsAbsent(fragment[area]) \/ ~VHas(fragment[area], structName) THEN {}
    ELSE {VGet(fragment[area], structName).items[m].key :
            m \in {m \in 1..Len(VGet(fragment[area], structName).items) :
                     HoldsValue(VGet(fragment[area], structName).items[m].val)}}
\* The block assigns to the member of the struct variable.
Assigns(block, member) ==
    \E a \in 1..Len(block.assigns) :
        /\ Len(block.assigns[a].lhs.path) >= 2
        /\ block.assigns[a].lhs.path[2] = member
OneBlockPerStruct(file, e) ==
    /\ Len(CasesOf(file, e)) = Len(CaseStructs(e))
    /\ \A i \in 1..Len(CaseStructs(e)) :
        /\ CasesOf(file, e)[i].type = CaseStructs(e)[i].key
        /\ \A k \in 1..Len(FragmentsOf(e)) :
            \A m \in SetBy(FragmentsOf(e)[k], AreaOf(e, i), CaseStructs(e)[i].key) :
                Assigns(CasesOf(file, e)[i], m)
DistinctLabels(file, e) ==
    \A i, j \in 1..Len(CasesOf(file, e)) :
        i # j => CasesOf(file, e)[i].label # CasesOf(file, e)[j].label

\* C19: the switch vpGetProfileStructures holds for a resolved profile has
\* exactly one case block for each feature and property struct of the merged
\* capabilities, the block assigns every member any fragment sets in the
\* struct, and no two case labels of the switch are equal.
C19_OneCasePerStruct ==
    \A e \in Declared : \A file \in {"cpp", "hpp"} :
        (IsResolved(e) /\ HasPart(file, "gen_publicImpl")) =>
            /\ OneBlockPerStruct(file, e)
            /\ DistinctLabels(file, e)

\* ------------------------------------------- properties of the assignments
\* Every member of the value tree exists in the struct, and an object is
\* given only to a member whose type is a struct of the registry.
RECURSIVE MembersExist(_, _)
MembersExist(structDef, values) ==
    /\ Kind(values) = "object"
    /\ \A m \in 1..Len(values.items) :
        /\ DictHas(structDef.members, values.items[m].key)
        /\ Kind(values.items[m].val) = "object" =>
            /\ DictHas(registry.structs, DictGet(structDef.members, values.items[m].key).type)
            /\ MembersExist(StructOf(DictGet(structDef.members, values.items[m].key).type),
                            values.items[m].val)
\* The assignments the rule of C20 gives for a value tree.
RECURSIVE AssignmentsFor(_, _, _)
AssignmentFor(structDef, var, item) ==
    IF Kind(item.val) = "object"
    THEN AssignmentsFor(StructOf(DictGet(structDef.members, item.key).type),
                        Append(var, item.key), item.val)
    ELSE IF Kind(item.val) = "array" /\ DictGet(structDef.members, item.key).isArray
    THEN [i \in 1..Len(item.val.items) |->
            Assign(Operand(Append(var, item.key), i - 1),
                   Rhs("literal", FALSE, <<item.val.items[i]>>))]
    ELSE IF Kind(item.val) = "array"
    THEN <<Assign(Operand(Append(var, item.key), NoIndex),
                  Rhs("list",
                      Len(item.val.items) > 0 /\ PyType(item.val.items[1]) = "str",
                      item.val.items))>>
    ELSE IF PyType(item.val) = "bool"
    THEN <<Assign(Operand(Append(var, item.key), NoIndex), Rhs("vkbool", FALSE, <<item.val>>))>>
    ELSE <<Assign(Operand(Append(var, item.key), NoIndex), Rhs("literal", FALSE, <<item.val>>))>>
AssignmentsFor(structDef, var, values) ==
    Flatten([m \in 1..Len(values.items) |-> AssignmentFor(structDef, var, values.items[m])])
CaseVar(e, i) == IF AreaOf(e, i) = "features" THEN "features" ELSE "props"

\* C20: for a feature or property struct of a resolved profile whose value
\* tree names members that exist, gen_assignStructVar returns the
\* assignments of the rule: those of the member's struct for an object, one
\* indexed assignment per element for an array on an array member, one
\* assignment of a bit-or (first element a string) or of a brace-enclosed
\* list for an array of any length on another member, VK_TRUE or VK_FALSE
\* for a boolean, the literal otherwise; and the case block a file holds for
\* the struct has these assignments.
C20_AssignmentsByValue ==
    \A e \in Declared :
        IsResolved(e) =>
            \A i \in 1..Len(CaseStructs(e)) :
                (/\ DictHas(registry.structs, CaseStructs(e)[i].key)
                 /\ MembersExist(StructOf(CaseStructs(e)[i].key), CaseStructs(e)[i].val)) =>
                    /\ gen_assignStructVar(registry, StructOf(CaseStructs(e)[i].key),
                                           <<CaseVar(e, i)>>, CaseStructs(e)[i].val)
                       = Ok(AssignmentsFor(StructOf(CaseStructs(e)[i].key),
                                           <<CaseVar(e, i)>>, CaseStructs(e)[i].val))
                    /\ \A file \in {"cpp", "hpp"} :
                        HasPart(file, "gen_publicImpl") =>
                            CasesOf(file, e)[i].assigns
                            = AssignmentsFor(StructOf(CaseStructs(e)[i].key),
                                             <<CaseVar(e, i)>>, CaseStructs(e)[i].val)

\* ------------------------------------ properties of the structure lists
\* The struct gen_structPropLists looks up for a name of an area, and the
\* root of the area.
RootOf(area) ==
    IF area = "features" THEN "VkPhysicalDeviceFeatures2" ELSE "VkPhysicalDeviceProperties2"
WrapperOf(area, name) ==
    IF area = "features" /\ name = "VkPhysicalDeviceFeatures" THEN RootOf(area)
    ELSE IF area = "properties" /\ name = "VkPhysicalDeviceProperties" THEN RootOf(area)
    ELSE name
AreaTag(area) ==
    IF area = "features" THEN "VP_STRUCTURE_FEATURES" ELSE "VP_STRUCTURE_PROPERTIES"
\* The struct names the root in its structextends.
Extends(name, root) ==
    \E i \in 1..Len(StructOf(name).extends) : StructOf(name).extends[i] = root
\* The struct reaches the root over at most depth steps of structextends
\* between structs of the registry.
RECURSIVE ExtendsTransitively(_, _, _)
ExtendsTransitively(name, root, depth) ==
    /\ depth > 0
    /\ DictHas(registry.structs, name)
    /\ \/ Extends(name, root)
       \/ \E i \in 1..Len(StructOf(name).extends) :
            ExtendsTransitively(StructOf(name).extends[i], root, depth - 1)
AcceptedDirectly(area, name) ==
    /\ DictHas(registry.structs, WrapperOf(area, name))
    /\ StructOf(WrapperOf(area, name)).sType # None
    /\ \/ WrapperOf(area, name) = RootOf(area)
       \/ Extends(WrapperOf(area, name), RootOf(area))
AcceptedTransitively(area, name) ==
    /\ DictHas(registry.structs, WrapperOf(area, name))
    /\ StructOf(WrapperOf(area, name)).sType # None
    /\ \/ WrapperOf(area, name) = RootOf(area)
       \/ ExtendsTransitively(WrapperOf(area, name), RootOf(area), Len(registry.structs))
\* The (area, name) pairs of the profile's merged capabilities in the order
\* of the structure list.
ListedStructs(e) ==
    [i \in 1..Len(CapabilitiesOf(e).features.items) |->
        <<"features", CapabilitiesOf(e).features.items[i].key>>]
    \o [i \in 1..Len(CapabilitiesOf(e).properties.items) |->
        <<"properties", CapabilitiesOf(e).properties.items[i].key>>]
StructListOf(file, e) == EntryOf(PartOf(file, "gen_structPropLists"), NameOf(e)).entries
\* With Accepts telling the accepted structs: a structure list is written
\* for the resolved profiles exactly when every struct is accepted, it holds
\* one (sType, area) entry per struct in insertion order, and another
\* struct ends the emission with a fatal error of gen_structPropLists.
StructListRule(Accepts(_, _)) ==
    \A e \in Declared :
        (IsResolved(e) /\ out.cpp.opened) =>
            /\ \A file \in {"cpp", "hpp"} :
                HasPart(file, "gen_structPropLists") =>
                    /\ Len(StructListOf(file, e)) = Len(ListedStructs(e))
                    /\ \A i \in 1..Len(ListedStructs(e)) :
                        /\ Accepts(ListedStructs(e)[i][1], ListedStructs(e)[i][2])
                        /\ StructListOf(file, e)[i] =
                            [sType |-> StructOf(WrapperOf(ListedStructs(e)[i][1],
                                                          ListedStructs(e)[i][2])).sType,
                             area |-> AreaTag(ListedStructs(e)[i][1])]
            /\ (\A i \in 1..Len(ListedStructs(e)) :
                    Accepts(ListedStructs(e)[i][1], ListedStructs(e)[i][2]))
               => HasPart("cpp", "gen_structPropLists")
            /\ (\E i \in 1..Len(ListedStructs(e)) :
                    ~Accepts(ListedStructs(e)[i][1], ListedStructs(e)[i][2]))
               => /\ pc = "failed"
                  /\ raised = [err |-> "fatal", at |-> "gen_structPropLists"]
                  /\ ~HasPart("cpp", "gen_structPropLists")

\* C21 as stated: gen_structPropLists accepts a struct iff, after the
\* mapping of the short names to the wrappers, it has an sType and is the
\* root of its area or extends it transitively; any other struct ends the
\* emission with a fatal error, and each accepted struct gives one
\* (sType, area) entry in insertion order.
C21_AcceptsTransitiveExtension == StructListRule(AcceptedTransitively)

\* C21 amended: the same with "is the root of its area or names it in its
\* own structextends" for the extension.
C21_AcceptsDirectExtension == StructListRule(AcceptedDirectly)
\* A structure list is written that holds the entry of the wrapper for
\* VkPhysicalDeviceFeatures, then the entry of a struct that extends the
\* root of the properties.
C21_Witness ==
    \E e \in Declared :
        /\ IsResolved(e)
        /\ HasPart("cpp", "gen_structPropLists")
        /\ ListedStructs(e) = <<<<"features", "VkPhysicalDeviceFeatures">>,
                                <<"properties", "VkPhysicalDeviceSyntheticProperties">>>>
        /\ StructListOf("cpp", e) =
            <<[sType |-> "VK_STRUCTURE_TYPE_PHYSICAL_DEVICE_FEATURES_2",
               area |-> "VP_STRUCTURE_FEATURES"],
              [sType |-> "VK_STRUCTURE_TYPE_PHYSICAL_DEVICE_SYNTHETIC_PROPERTIES",
               area |-> "VP_STRUCTURE_PROPERTIES"]>>

\* ------------------------------------------ properties of the two walkers
\* The value tree names a member the struct does not have, or gives an
\* object to a member whose type is no struct of the registry.
RECURSIVE Offends(_, _)
Offends(structDef, values) ==
    \E m \in 1..Len(values.items) :
        \/ ~DictHas(structDef.members, values.items[m].key)
        \/ /\ Kind(values.items[m].val) = "object"
           /\ \/ ~DictHas(registry.structs,
                           DictGet(structDef.members, values.items[m].key).type)
              \/ Offends(StructOf(DictGet(structDef.members, values.items[m].key).type),
                         values.items[m].val)
\* The same, not looking at what is given to a member of limittype IGNORE.
RECURSIVE OffendsCompared(_, _)
OffendsCompared(structDef, values) ==
    \E m \in 1..Len(values.items) :
        \/ ~DictHas(structDef.members, values.items[m].key)
        \/ /\ DictGet(structDef.members, values.items[m].key).limittype # "IGNORE"
           /\ Kind(values.items[m].val) = "object"
           /\ \/ ~DictHas(registry.structs,
                           DictGet(structDef.members, values.items[m].key).type)
              \/ OffendsCompared(
                    StructOf(DictGet(structDef.members, values.items[m].key).type),
                    values.items[m].val)
\* The value tree holds an empty array somewhere.
RECURSIVE HoldsEmptyArray(_)
HoldsEmptyArray(value) ==
    IF Kind(value) = "object"
    THEN \E m \in 1..Len(value.items) : HoldsEmptyArray(value.items[m].val)
    ELSE Kind(value) = "array" /\ Len(value.items) = 0
\* The value tree gives a value to a member of limittype range.
RECURSIVE GivesRange(_, _)
GivesRange(structDef, values) ==
    \E m \in 1..Len(values.items) :
        /\ DictHas(structDef.members, values.items[m].key)
        /\ \/ DictGet(structDef.members, values.items[m].key).limittype = "range"
           \/ /\ Kind(values.items[m].val) = "object"
              /\ DictHas(registry.structs,
                         DictGet(structDef.members, values.items[m].key).type)
              /\ GivesRange(StructOf(DictGet(structDef.members, values.items[m].key).type),
                            values.items[m].val)
\* What the walkers return for struct i of the profile's feature and
\* property structs.
Assigned(e, i) ==
    gen_assignStructVar(registry, StructOf(CaseStructs(e)[i].key), <<CaseVar(e, i)>>,
                        CaseStructs(e)[i].val)
Compared(e, i) ==
    gen_compareStructVar(registry, FmtOf(AreaOf(e, i)), StructOf(CaseStructs(e)[i].key),
                         VarPath("device", AreaOf(e, i), CaseStructs(e)[i].key),
                         VarPath("profile", AreaOf(e, i), CaseStructs(e)[i].key),
                         CaseStructs(e)[i].val)
Walked(e) ==
    {i \in 1..Len(CaseStructs(e)) :
        /\ DictHas(registry.structs, CaseStructs(e)[i].key)
        /\ Kind(CaseStructs(e)[i].val) = "object"}

Namers(e, name) ==
    {k \in 1..Len(FragmentsOf(e)) :
        \E x \in 1..Len(ExtensionsOf(FragmentsOf(e)[k])) :
            ExtensionsOf(FragmentsOf(e)[k])[x] = name}
LastNamer(e, name) == CHOOSE k \in Namers(e, name) : \A l \in Namers(e, name) : l <= k
LastVersion(e, name) == VGet(FragmentsOf(e)[LastNamer(e, name)].extensions, name)
\* Two fragments give different spec versions for an extension.
DifferingVersions(e) ==
    \E k, l \in 1..Len(FragmentsOf(e)) :
        \E x \in 1..Len(ExtensionsOf(FragmentsOf(e)[k])) :
            /\ k < l
            /\ l \in Namers(e, ExtensionsOf(FragmentsOf(e)[k])[x])
            /\ VGet(FragmentsOf(e)[k].extensions, ExtensionsOf(FragmentsOf(e)[k])[x])
               # VGet(FragmentsOf(e)[l].extensions, ExtensionsOf(FragmentsOf(e)[k])[x])
PerKindMap(e, name) ==
    IF KindOfExtension(name) = "instance" THEN CapabilitiesOf(e).instanceExtensions
    ELSE CapabilitiesOf(e).deviceExtensions
EmittedArray(file, e, name) ==
    IF KindOfExtension(name) = "instance" THEN PrivateDataOf(file, e).instance
    ELSE PrivateDataOf(file, e).device

\* C23: when fragments of a profile name the same extension with different
\* spec versions, merging the extensions raises nothing, and the spec
\* version in the merged extension map, in the map of the extension's kind
\* and in the emitted array of that kind is the one the last fragment that
\* names the extension gives.
C23_LastSpecVersionWins ==
    \A e \in Declared :
        (Attempted(e) /\ DifferingVersions(e) /\ ExtensionsClassified(e)) =>
            /\ ResolutionFailed(e) => raised.at # "mergeProfileExtensions"
            /\ IsResolved(e) =>
                \A x \in 1..Len(CapabilitiesOf(e).extensions) :
                    LET name == CapabilitiesOf(e).extensions[x].key
                    IN  /\ CapabilitiesOf(e).extensions[x].val = LastVersion(e, name)
                        /\ DictGet(PerKindMap(e, name), name) = LastVersion(e, name)
                        /\ \A file \in {"cpp", "hpp"} :
                            HasPart(file, "gen_privateImpl") =>
                                \E i \in 1..Len(EmittedArray(file, e, name).entries) :
                                    EmittedArray(file, e, name).entries[i] =
                                        [name |-> UpperCaseName(name),
                                         specVersion |-> LastVersion(e, name)]
\* The private data is written for a profile whose first fragment gives an
\* instance and a device extension spec version 2 and whose second fragment
\* gives both spec version 1.
C23_Witness ==
    \E e \in Declared :
        /\ IsResolved(e)
        /\ DifferingVersions(e)
        /\ HasPart("cpp", "gen_privateImpl")
        /\ ExtensionsOf(FragmentsOf(e)[1]) = <<"VK_KHR_surface", "VK_KHR_swapchain">>
        /\ VGet(FragmentsOf(e)[1].extensions, "VK_KHR_surface") = Scalar("int", "2")
        /\ DictGet(CapabilitiesOf(e).instanceExtensions, "VK_KHR_surface") = Scalar("int", "1")
        /\ DictGet(CapabilitiesOf(e).deviceExtensions, "VK_KHR_swapchain") = Scalar("int", "1")

\* ------------------------------------------ properties of the static tables
\* What a file's parts hold for the profile.
NamesIn(entries) == {entries[i].name : i \in 1..Len(entries)}
SupportOf(file, e) ==
    EntryOf(PartOf(file, "gen_publicImpl").vpGetDeviceProfileSupport, NameOf(e))
CreateDeviceOf(file, e) == EntryOf(PartOf(file, "gen_publicImpl").vpCreateDevice, NameOf(e))
ProfileDescOf(file, e) == EntryOf(PartOf(file, "gen_privateImpl").profileDesc, NameOf(e))
Listed(names, name) == \E i \in 1..Len(names) : names[i] = name
\* The extension arrays the file defines for the profile and those its
\* functions read.
ExtensionArraysDefined(file, e) ==
    /\ ProfileDescOf(file, e).instanceExtensions => PrivateDataOf(file, e).instance.emitted
    /\ ProfileDescOf(file, e).deviceExtensions => PrivateDataOf(file, e).device.emitted
    /\ SupportOf(file, e).deviceExtensions => PrivateDataOf(file, e).device.emitted
    /\ CreateDeviceOf(file, e).deviceExtensions => PrivateDataOf(file, e).device.emitted
StructureTableDefined(file, e) ==
    Listed(PartOf(file, "gen_publicImpl").vpGetProfileStructureProperties, NameOf(e))
        => NameOf(e) \in NamesIn(PartOf(file, "gen_structPropLists"))
FormatTableDefined(file, e) ==
    (\/ Listed(PartOf(file, "gen_publicImpl").vpGetProfileFormats, NameOf(e))
     \/ Listed(PartOf(file, "gen_publicImpl").vpGetProfileFormatProperties, NameOf(e)))
        => NameOf(e) \in NamesIn(PartOf(file, "gen_formatLists"))
QueueFamilyTableDefined(file, e) ==
    (\/ Listed(PartOf(file, "gen_publicImpl").vpGetProfileQueueFamilies, NameOf(e))
     \/ SupportOf(file, e).queueFamilies)
        => NameOf(e) \in NamesIn(PartOf(file, "gen_queueFamilyLists"))
MemoryTypeTableDefined(file, e) ==
    SupportOf(file, e).memoryTypes => HasPart(file, "gen_memoryTypeLists")

\* C24: in a file that holds the public functions, every static table the
\* code of a resolved profile reads (the extension arrays in _vpProfiles, in
\* vpGetDeviceProfileSupport and in vpCreateDevice, _STRUCTURE_PROPERTIES,
\* _FORMATS, _QUEUE_FAMILY_PROPERTIES, _MEMORY_TYPES) is defined for the
\* profile in that file.
C24_ReferencedTablesDefined ==
    \A e \in Declared : \A file \in {"cpp", "hpp"} :
        (IsResolved(e) /\ HasPart(file, "gen_publicImpl")) =>
            /\ ExtensionArraysDefined(file, e)
            /\ StructureTableDefined(file, e)
            /\ FormatTableDefined(file, e)
            /\ QueueFamilyTableDefined(file, e)
            /\ MemoryTypeTableDefined(file, e)

\* ------------------------------------------------------ the generated library
\* vulkan_profiles.cpp compiled with vulkan_profiles.h and with the Vulkan
\* headers of the registry document, every requirement of every profile
\* defined. The library keeps no state between calls, so a behaviour makes
\* one call, of any public function with any arguments.

\* VK_MAKE_VERSION and VK_VERSION_PATCH of the Vulkan headers on uint32_t:
\* major from bit 22 (its bits above the tenth are shifted out), minor from
\* bit 12, patch from bit 0; the fields do not overlap for the minor numbers
\* below 1024 and the patch numbers below 4096 of the versions modelled.
VK_MAKE_VERSION(major, minor, patch) ==
    (major % 1024) * 4194304 + minor * 4096 + patch
VK_VERSION_PATCH(version) == version % 4096

\* An integer literal of the generated code as the compiler reads it, from
\* its character codes.
RECURSIVE Literal(_)
Literal(s) ==
    IF s = <<>> THEN 0 ELSE 10 * Literal(SubSeq(s, 1, Len(s) - 1)) + (s[Len(s)] - 48)
\* The same for the values json.load gives for the spec versions modelled.
IntegerLiteral(text) ==
    CASE text = "0" -> 0 [] text = "1" -> 1 [] text = "2" -> 2 [] text = "3" -> 3

\* The arguments of a macro call written "a, b, c".
RECURSIVE MacroArguments(_)
MacroArguments(s) ==
    IF DigitRun(s) = Len(s) THEN <<Literal(s)>>
    ELSE <<Literal(SubSeq(s, 1, DigitRun(s)))>>
         \o MacroArguments(SubSeq(s, DigitRun(s) + 3, Len(s)))

\* What a macro of vulkan_profiles.h expands to.
Defines == Flatten(PartOf("h", "gen_profileDefs"))
Macro(uname, suffix) ==
    Defines[CHOOSE i \in 1..Len(Defines) :
                /\ Defines[i].directive = "#define"
                /\ Defines[i].operand[2] = suffix
                /\ Defines[i].operand[1] = uname].operand[3]
MinApiVersionOf(name) ==
    LET args == MacroArguments(Macro(Upper(name), "_MIN_API_VERSION")[2])
    IN  VK_MAKE_VERSION(args[1], args[2], args[3])

\* <stem>_EXTENSION_NAME of the Vulkan headers: the name of the extension
\* whose element declares the enum.
ExtensionNameMacro(stem) ==
    LET declares(x) == \E i \in 1..Len(xml.extensions[x].enums) :
                           /\ xml.extensions[x].enums[i].suffix = "_EXTENSION_NAME"
                           /\ xml.extensions[x].enums[i].stem = stem
    IN  xml.extensions[CHOOSE x \in 1..Len(xml.extensions) : declares(x)].name

\* An extension array of the private data as the compiler lays it out.
ExtensionArray(data) ==
    [i \in 1..Len(data.entries) |->
        [extensionName |-> ExtensionNameMacro(data.entries[i].name),
         specVersion |-> IntegerLiteral(data.entries[i].specVersion.v)]]

\* The table _vpProfiles without its closing entry; a null array is empty.
vpProfiles ==
    LET descs == PartOf("cpp", "gen_privateImpl").profileDesc
        data(i) == EntryOf(PartOf("cpp", "gen_privateImpl").privateData, descs[i].name)
    IN  [i \in 1..Len(descs) |->
            [name |-> Macro(Upper(descs[i].name), "_NAME"),
             specVersion |-> Macro(Upper(descs[i].name), "_SPEC_VERSION"),
             minApiVersion |-> MinApiVersionOf(descs[i].name),
             pInstanceExtensions |-> IF descs[i].instanceExtensions
                                     THEN ExtensionArray(data(i).instance) ELSE <<>>,
             pDeviceExtensions |-> IF descs[i].deviceExtensions
                                   THEN ExtensionArray(data(i).device) ELSE <<>>]]

\* _vpGetProfileDesc: the first entry of the name, or nullptr.
nullptr == [null |-> TRUE]
vpGetProfileDesc(pProfiles, name) ==
    IF \E i \in 1..Len(pProfiles) : pProfiles[i].name = name
    THEN pProfiles[CHOOSE i \in 1..Len(pProfiles) :
                       /\ pProfiles[i].name = name
                       /\ \A j \in 1..(i - 1) : pProfiles[j].name # name]
    ELSE nullptr

\* _vpCheckExtension: the first supported entry of the name decides.
vpCheckExtension(supportedProperties, requestedExtension, expectedVersion) ==
    \E i \in 1..Len(supportedProperties) :
        /\ supportedProperties[i].extensionName = requestedExtension
        /\ \A j \in 1..(i - 1) : supportedProperties[j].extensionName # requestedExtension
        /\ supportedProperties[i].specVersion > expectedVersion

Returned(result, supported) == [result |-> result, supported |-> supported]

\* vpGetInstanceProfileSupport of PUBLIC_IMPL_BODY, with what
\* vkEnumerateInstanceVersion and vkEnumerateInstanceExtensionProperties gave.
InstanceProfileSupport(pProfile, apiVersion, ext) ==
    LET pDesc == vpGetProfileDesc(vpProfiles, pProfile.profileName)
    IN  IF pDesc = nullptr THEN Returned("VK_ERROR_UNKNOWN", FALSE)
        ELSE IF pDesc.specVersion < pProfile.specVersion THEN Returned("VK_SUCCESS", FALSE)
        ELSE IF VK_VERSION_PATCH(apiVersion) < VK_VERSION_PATCH(pDesc.minApiVersion)
        THEN Returned("VK_SUCCESS", FALSE)
        ELSE IF \E i \in 1..Len(pDesc.pInstanceExtensions) :
                    ~vpCheckExtension(ext, pDesc.pInstanceExtensions[i].extensionName,
                                      pDesc.pInstanceExtensions[i].specVersion)
        THEN Returned("VK_SUCCESS", FALSE)
        ELSE Returned("VK_SUCCESS", TRUE)

\* The branch of a profile in the generated vpGetDeviceProfileSupport, or
\* nullptr when no branch is of the name.
SupportBranch(name) ==
    LET branches == PartOf("cpp", "gen_publicImpl").vpGetDeviceProfileSupport
    IN  IF \E i \in 1..Len(branches) : Macro(Upper(branches[i].name), "_NAME") = name
        THEN branches[CHOOSE i \in 1..Len(branches) :
                          /\ Macro(Upper(branches[i].name), "_NAME") = name
                          /\ \A j \in 1..(i - 1) :
                                Macro(Upper(branches[j].name), "_NAME") # name]
        ELSE nullptr

\* The generated vpGetDeviceProfileSupport, with what
\* vkEnumerateDeviceExtensionProperties and vkGetPhysicalDeviceProperties
\* gave; satisfied tells whether the device passes the comparisons of the
\* features, the properties and the queue families the branch makes.
DeviceProfileSupport(pProfile, apiVersion, ext, satisfied) ==
    LET branch == SupportBranch(pProfile.profileName)
        uname == Upper(branch.name)
        deviceExtensions ==
            ExtensionArray(EntryOf(PartOf("cpp", "gen_privateImpl").privateData,
                                   branch.name).device)
    IN  IF branch = nullptr THEN Returned("VK_SUCCESS", FALSE)
        ELSE IF Macro(uname, "_SPEC_VERSION") < pProfile.specVersion
        THEN Returned("VK_SUCCESS", FALSE)
        ELSE IF VK_VERSION_PATCH(apiVersion) < VK_VERSION_PATCH(MinApiVersionOf(branch.name))
        THEN Returned("VK_SUCCESS", FALSE)
        ELSE IF /\ branch.deviceExtensions
                /\ \E i \in 1..Len(deviceExtensions) :
                       ~vpCheckExtension(ext, deviceExtensions[i].extensionName, 0)
        THEN Returned("VK_SUCCESS", FALSE)
        ELSE IF /\ \/ branch.features.emitted
                   \/ branch.properties.emitted
                   \/ branch.queueFamilies
                /\ ~satisfied
        THEN Returned("VK_SUCCESS", FALSE)
        ELSE Returned("VK_SUCCESS", TRUE)

\* A variant of Enumerate that copies as many entries as the caller's count.
Enumerate_unclamped(table, isNull, count) ==
    IF isNull
    THEN [result |-> "VK_SUCCESS", count |-> Len(table), copied |-> <<>>, readPast |-> FALSE]
    ELSE [result |-> IF count < Len(table) THEN "VK_INCOMPLETE" ELSE "VK_SUCCESS",
          count |-> count,
          copied |-> [i \in 1..(IF count < Len(table) THEN count ELSE Len(table)) |->
                        table[i]],
          readPast |-> count > Len(table)]
\* The body the enumerators share: count is *pPropertyCount at the call,
\* isNull tells whether pProperties is nullptr. copied is what the loop
\* wrote from entries the table has, readPast whether it also read entries
\* the table does not have.
Enumerate(table, isNull, count) ==
    IF isNull
    THEN [result |-> "VK_SUCCESS", count |-> Len(table), copied |-> <<>>, readPast |-> FALSE]
    ELSE LET n == IF count < Len(table) THEN count ELSE Len(table)
         IN  [result |-> IF count < Len(table) THEN "VK_INCOMPLETE" ELSE "VK_SUCCESS",
              count |-> n,
              copied |-> [i \in 1..(IF n < Len(table) THEN n ELSE Len(table)) |-> table[i]],
              readPast |-> n > Len(table)]
\* The last branch of an enumerator: "*pPropertyCount = 0".
NoBranch == [result |-> "VK_SUCCESS", count |-> 0, copied |-> <<>>, readPast |-> FALSE]
UnknownProfile == [result |-> "VK_ERROR_UNKNOWN"]

\* The table a call enumerates, or none when no branch is of the profile.
NoTable == [branch |-> FALSE, entries |-> <<>>]
TableOf(entries) == [branch |-> TRUE, entries |-> entries]

\* The table the branch of a profile reads in a generated enumerator that
\* has a branch per listed profile: lists is the part that defines the
\* tables, listed the names that have a branch.
BranchTable(lists, listed, name) ==
    LET own == {i \in 1..Len(listed) : Macro(Upper(listed[i]), "_NAME") = name}
        first == CHOOSE i \in own : \A j \in own : i <= j
    IN  IF own = {} THEN NoTable
        ELSE TableOf(EntryOf(PartOf("cpp", lists), listed[first]).entries)

\* The tables of the enumerators.
ProfilesTable ==
    LET names == PartOf("cpp", "gen_publicImpl").vpGetProfiles
    IN  [i \in 1..Len(names) |->
            [profileName |-> Macro(Upper(names[i]), "_NAME"),
             specVersion |-> Macro(Upper(names[i]), "_SPEC_VERSION")]]
FallbacksTable(name) ==
    LET branches == PartOf("cpp", "gen_publicImpl").vpGetProfileFallbacks
        own == {i \in 1..Len(branches) : Macro(Upper(branches[i].name), "_NAME") = name}
        first == CHOOSE i \in own : \A j \in own : i <= j
    IN  IF own = {} THEN NoTable
        ELSE TableOf([i \in 1..Len(branches[first].fallbacks) |->
                        [profileName |-> Macro(Upper(branches[first].fallbacks[i]), "_NAME"),
                         specVersion |->
                            Macro(Upper(branches[first].fallbacks[i]), "_SPEC_VERSION")]])
StructurePropertiesTable(name) ==
    BranchTable("gen_structPropLists",
                PartOf("cpp", "gen_publicImpl").vpGetProfileStructureProperties, name)
FormatsTable(name) ==
    BranchTable("gen_formatLists", PartOf("cpp", "gen_publicImpl").vpGetProfileFormats, name)
QueueFamiliesTable(name) ==
    BranchTable("gen_queueFamilyLists",
                PartOf("cpp", "gen_publicImpl").vpGetProfileQueueFamilies, name)

\* "_FORMATS[i].format": vpGetProfileFormats copies one field of an entry.
FormatFields(table) ==
    [table EXCEPT !.entries = [i \in 1..Len(table.entries) |-> table.entries[i].format]]

\* An enumerator generated with a branch per profile, on the table of the
\* profile asked for.
GeneratedEnumerator(table, isNull, count) ==
    IF table.branch THEN Enumerate(table.entries, isNull, count) ELSE NoBranch
\* An enumerator of PUBLIC_IMPL_BODY on the array of the profile's entry of
\* _vpProfiles.
DescEnumerator(name, field, isNull, count) ==
    LET pDesc == vpGetProfileDesc(vpProfiles, name)
    IN  IF pDesc = nullptr THEN UnknownProfile ELSE Enumerate(pDesc[field], isNull, count)

\* ----------------------------------------------------- calls of the library
\* What a caller passes and what the Vulkan implementation answers.
MaxCount == 3
MaxOffered == 2
ProfileNames == {"VP_TEST_library", "VP_TEST_fallback", "VP_TEST_unknown"}
ProfilesAsked == [profileName : ProfileNames, specVersion : {1, 2}]
RunningVersions ==
    {VK_MAKE_VERSION(1, 0, 5), VK_MAKE_VERSION(1, 1, 0), VK_MAKE_VERSION(1, 2, 0),
     VK_MAKE_VERSION(1, 2, 198), VK_MAKE_VERSION(1, 3, 0)}
OfferedExtensions ==
    [extensionName : {"VK_KHR_surface", "VK_KHR_swapchain"}, specVersion : 1..MaxOffered]
Offers ==
    {l \in SeqsUpTo(OfferedExtensions, 2) :
        \A i, j \in 1..Len(l) : i # j => l[i].extensionName # l[j].extensionName}

Called(c) ==
    /\ pc = "done"
    /\ call = NotCalled
    /\ call' = c
    /\ UNCHANGED <<xml, registry, dir, filenames, next, profiles, pc, raised, out>>

vpGetInstanceProfileSupport ==
    \E pProfile \in ProfilesAsked, apiVersion \in RunningVersions, ext \in Offers :
        Called([fn |-> "vpGetInstanceProfileSupport", pProfile |-> pProfile,
                apiVersion |-> apiVersion, ext |-> ext,
                ret |-> InstanceProfileSupport(pProfile, apiVersion, ext)])

vpGetDeviceProfileSupport ==
    \E pProfile \in ProfilesAsked, apiVersion \in RunningVersions, ext \in Offers,
       satisfied \in BOOLEAN :
        Called([fn |-> "vpGetDeviceProfileSupport", pProfile |-> pProfile,
                apiVersion |-> apiVersion, ext |-> ext, satisfied |-> satisfied,
                ret |-> DeviceProfileSupport(pProfile, apiVersion, ext, satisfied)])

Enumerated(fn, name, table, isNull, count, ret) ==
    Called([fn |-> fn, profileName |-> name, table |-> table, isNull |-> isNull,
            count |-> count, ret |-> ret])

vpGetProfiles ==
    \E isNull \in BOOLEAN, count \in 0..MaxCount :
        Enumerated("vpGetProfiles", "", TableOf(ProfilesTable), isNull, count,
                   Enumerate(ProfilesTable, isNull, count))

vpGetProfileFallbacks ==
    \E name \in ProfileNames, isNull \in BOOLEAN, count \in 0..MaxCount :
        Enumerated("vpGetProfileFallbacks", name, FallbacksTable(name), isNull, count,
                   GeneratedEnumerator(FallbacksTable(name), isNull, count))

vpGetProfileStructureProperties ==
    \E name \in ProfileNames, isNull \in BOOLEAN, count \in 0..MaxCount :
        Enumerated("vpGetProfileStructureProperties", name, StructurePropertiesTable(name),
                   isNull, count,
                   GeneratedEnumerator(StructurePropertiesTable(name), isNull, count))

vpGetProfileFormats ==
    \E name \in ProfileNames, isNull \in BOOLEAN, count \in 0..MaxCount :
        Enumerated("vpGetProfileFormats", name, FormatsTable(name), isNull, count,
                   GeneratedEnumerator(FormatFields(FormatsTable(name)), isNull, count))

vpGetProfileQueueFamilies ==
    \E name \in ProfileNames, isNull \in BOOLEAN, count \in 0..MaxCount :
        Enumerated("vpGetProfileQueueFamilies", name, QueueFamiliesTable(name), isNull, count,
                   GeneratedEnumerator(QueueFamiliesTable(name), isNull, count))

DescTable(name, field) ==
    IF vpGetProfileDesc(vpProfiles, name) = nullptr THEN NoTable
    ELSE TableOf(vpGetProfileDesc(vpProfiles, name)[field])

vpGetProfileInstanceExtensionProperties ==
    \E name \in ProfileNames, isNull \in BOOLEAN, count \in 0..MaxCount :
        Enumerated("vpGetProfileInstanceExtensionProperties", name,
                   DescTable(name, "pInstanceExtensions"), isNull, count,
                   DescEnumerator(name, "pInstanceExtensions", isNull, count))

vpGetProfileDeviceExtensionProperties ==
    \E name \in ProfileNames, isNull \in BOOLEAN, count \in 0..MaxCount :
        Enumerated("vpGetProfileDeviceExtensionProperties", name,
                   DescTable(name, "pDeviceExtensions"), isNull, count,
                   DescEnumerator(name, "pDeviceExtensions", isNull, count))

\* The profiles the library is generated from: one file with the profiles
\* VP_TEST_library and VP_TEST_fallback; the first has an api-version, a list
\* of fallbacks, and extensions or features, formats and queue families.
LibraryFragments ==
    {EmptyFragment,
     [EmptyFragment EXCEPT !.extensions = Extensions(<<"VK_KHR_surface">>, "2")],
     [EmptyFragment EXCEPT
        !.extensions = Extensions(<<"VK_KHR_surface", "VK_KHR_swapchain">>, "1")],
     [EmptyFragment EXCEPT
        !.features = Dict(<<Item("VkPhysicalDeviceFeatures",
                                 Dict(<<Item("geometryShader", Scalar("bool", "True"))>>)),
                            Item("VkPhysicalDeviceVulkan12Features", Dict(<<>>))>>),
        !.formats = Dict(<<Item("VK_FORMAT_R8_UNORM", Dict(<<Item("VkFormatProperties", Dict(<<>>))>>))>>),
        !.queueFamiliesProperties = List(<<QueueFamily("1"), QueueFamily("2")>>)]}
LibraryFallbacks == {<<>>, <<"VP_TEST_fallback">>, <<"VP_TEST_fallback", "VP_TEST_library">>}
LibraryDirs ==
    {<<Item("a.json",
            Document(<<Item("VP_TEST_library",
                            [ProfileData(v, <<"baseline">>) EXCEPT !.fallback = fallback]),
                       Item("VP_TEST_fallback", ProfileData(ApiVersion(1, 1, 0), <<>>))>>,
                     <<Item("baseline", f)>>))>> :
        v \in {ApiVersion(1, 1, 0), ApiVersion(1, 2, 0)}, f \in LibraryFragments,
        fallback \in LibraryFallbacks}

\* The generator's run on such a directory, followed by a call.
LibraryInit ==
    /\ xml = TestXml
    /\ registry = NoRegistry
    /\ dir \in LibraryDirs
    /\ filenames = <<>>
    /\ next = 1
    /\ profiles = <<>>
    /\ pc = "VulkanRegistry"
    /\ raised = NotRaised
    /\ out = NoOutput
    /\ call = NotCalled

LibraryNext ==
    \/ LoadRegistry \/ ListDir \/ LoadFile \/ GenerateH \/ GenerateCpp \/ GenerateHpp
    \/ vpGetInstanceProfileSupport
    \/ vpGetDeviceProfileSupport
    \/ vpGetProfiles
    \/ vpGetProfileFallbacks
    \/ vpGetProfileStructureProperties
    \/ vpGetProfileFormats
    \/ vpGetProfileQueueFamilies
    \/ vpGetProfileInstanceExtensionProperties
    \/ vpGetProfileDeviceExtensionProperties

LibrarySpec == LibraryInit /\ [][LibraryNext]_vars

\* ------------------------------------------- properties of the library calls
SupportCalls == {"vpGetDeviceProfileSupport", "vpGetInstanceProfileSupport"}
ReportedSupported == call.fn \in SupportCalls /\ call.ret.supported

\* C25: a call of vpGetDeviceProfileSupport or vpGetInstanceProfileSupport
\* that sets *pSupported to VK_TRUE ran on an API version, compared as the
\* packed major, minor and patch numbers, that is at least the profile's
\* minimum API version.
C25_SupportedOnlyAtMinApiVersion ==
    ReportedSupported => call.apiVersion >= MinApiVersionOf(call.pProfile.profileName)

\* ------------------------------------- properties of the chains of structs
\* The blocks of vpGetDeviceProfileSupport a file holds for the profile.
SupportBlocksOf(file, e) ==
    {b \in {SupportOf(file, e).features, SupportOf(file, e).properties} : b.emitted}
\* What the statements of the block leave in var.pNext: the root's is set
\* after the loop, any other by the last declaration of the variable.
PNextOf(block, var) ==
    LET own == {i \in 1..Len(block.defs) : block.defs[i].var = var}
    IN  IF var = block.queried /\ block.rootPNext # NoVar THEN block.rootPNext
        ELSE IF own = {} THEN NoVar
        ELSE block.defs[CHOOSE i \in own : \A j \in own : j <= i].pNext
\* The variables met in at most k steps along pNext from var.
RECURSIVE ReachableFrom(_, _, _)
ReachableFrom(block, var, k) ==
    IF var = NoVar \/ k = 0 THEN {}
    ELSE {var} \cup ReachableFrom(block, PNextOf(block, var), k - 1)
DeclaredSide(block, side) ==
    {block.defs[i].var : i \in {i \in 1..Len(block.defs) : block.defs[i].var[1] = side}}
ChainsComplete(block) ==
    /\ DeclaredSide(block, "device")
           \subseteq ReachableFrom(block, block.queried, Len(block.defs) + 1)
    /\ DeclaredSide(block, "profile")
           \subseteq ReachableFrom(block, block.profileArg, Len(block.defs) + 1)
NamesBoth(values, shortName, root) == VHas(values, shortName) /\ VHas(values, root)
NamesStructAndWrapper(e) ==
    \/ NamesBoth(CapabilitiesOf(e).features, "VkPhysicalDeviceFeatures",
                 "VkPhysicalDeviceFeatures2")
    \/ NamesBoth(CapabilitiesOf(e).properties, "VkPhysicalDeviceProperties",
                 "VkPhysicalDeviceProperties2")

\* C26: in every file that holds vpGetDeviceProfileSupport, for every
\* resolved profile with a feature (property) struct, every device-side
\* struct the block declares is reached along pNext from the struct passed
\* to the device query, and every profile-side struct from the pointer
\* passed to vpGetProfileStructures.
C26_DeclaredStructsChained ==
    \A e \in Declared : \A file \in {"cpp", "hpp"} :
        (IsResolved(e) /\ HasPart(file, "gen_publicImpl")) =>
            \A block \in SupportBlocksOf(file, e) : ChainsComplete(block)

Enumerators ==
    {"vpGetProfiles", "vpGetProfileFallbacks", "vpGetProfileStructureProperties",
     "vpGetProfileFormats", "vpGetProfileQueueFamilies",
     "vpGetProfileInstanceExtensionProperties", "vpGetProfileDeviceExtensionProperties"}
\* An enumerator ran on the table of the call; the table of a profile
\* without a branch has no entry.
EnumeratedTable == call.fn \in Enumerators /\ call.ret.result # "VK_ERROR_UNKNOWN"
TableSize == Len(call.table.entries)
Smaller(a, b) == IF a < b THEN a ELSE b
CopyOf(entry) == IF call.fn = "vpGetProfileFormats" THEN entry.format ELSE entry

\* C27: a call of an enumerator on a table of n entries: with a null array
\* it stores n in the count and returns VK_SUCCESS; with an array and a
\* count c it copies the first min(c, n) entries, reads no entry past the
\* table, leaves min(c, n) in the count and returns VK_INCOMPLETE exactly
\* when c < n.
C27_EnumeratorsCountAndCopy ==
    EnumeratedTable =>
        IF call.isNull
        THEN /\ call.ret.count = TableSize
             /\ call.ret.result = "VK_SUCCESS"
             /\ call.ret.copied = <<>>
        ELSE /\ Len(call.ret.copied) = Smaller(call.count, TableSize)
             /\ \A i \in 1..Len(call.ret.copied) :
                    call.ret.copied[i] = CopyOf(call.table.entries[i])
             /\ ~call.ret.readPast
             /\ call.ret.count = Smaller(call.count, TableSize)
             /\ call.ret.result = (IF call.count < TableSize THEN "VK_INCOMPLETE"
                                   ELSE "VK_SUCCESS")
\* vpGetProfileQueueFamilies copies one of the two queue families of
\* VP_TEST_library and tells the caller there are more.
C27_Witness ==
    /\ call.fn = "vpGetProfileQueueFamilies"
    /\ call.profileName = "VP_TEST_library"
    /\ ~call.isNull
    /\ call.count = 1
    /\ TableSize = 2
    /\ call.ret = [result |-> "VK_INCOMPLETE", count |-> 1,
                   copied |-> <<call.table.entries[1]>>, readPast |-> FALSE]

\* The entry of _vpProfiles of the profile the call asks for.
DescAsked == vpGetProfileDesc(vpProfiles, call.pProfile.profileName)
ChecksPass ==
    /\ DescAsked # nullptr
    /\ DescAsked.specVersion >= call.pProfile.specVersion
    /\ VK_VERSION_PATCH(call.apiVersion) >= VK_VERSION_PATCH(DescAsked.minApiVersion)
\* Every instance extension of the profile is among the extensions the
\* instance offers, with a spec version the relation accepts.
ExtensionsOffered(Accepts(_, _)) ==
    \A i \in 1..Len(DescAsked.pInstanceExtensions) :
        \E j \in 1..Len(call.ext) :
            /\ call.ext[j].extensionName = DescAsked.pInstanceExtensions[i].extensionName
            /\ Accepts(call.ext[j].specVersion, DescAsked.pInstanceExtensions[i].specVersion)

\* C28: a call of vpGetInstanceProfileSupport for a known profile that
\* passes the spec-version check and the API-version check, on an instance
\* that offers every instance extension of the profile with a spec version
\* greater than or equal to the required one, sets *pSupported to VK_TRUE.
C28_SupportedWhenExtensionsOffered ==
    (/\ call.fn = "vpGetInstanceProfileSupport"
     /\ ChecksPass
     /\ ExtensionsOffered(LAMBDA offered, required : offered >= required))
        => call.ret.supported

\* ------------------------------------------------- the objects of a file
\* json.load builds one dict or list object per node of the document and
\* Python passes references to them. The resolver is modelled here on a
\* store of such objects, to tell whether an object of the document is
\* written through a reference the resolver kept: objs[a] is the object at
\* address a, a dict or list whose values are scalars or references; err
\* tells that the resolver raised.
Ref(a) == [k |-> "ref", at |-> a]
IsRef(v) == v.k = "ref"
TypeAt(store, v) == IF IsRef(v) THEN store.objs[v.at].k ELSE v.k
EmptyStore == [objs |-> <<>>, err |-> FALSE]
Raised(store) == [store EXCEPT !.err = TRUE]
\* dict() or []: a new object at the next address.
NextAddress(store) == Len(store.objs) + 1
New(store, kind) == [store EXCEPT !.objs = Append(@, [k |-> kind, items |-> <<>>])]
ItemsAt(store, v) == store.objs[v.at].items
\* d[key] = val on the dict that d refers to.
SetItem(store, d, key, val) ==
    [store EXCEPT !.objs[d.at].items = DictSet(@, key, val)]

\* json.load of a value: the store with the objects of the value, and the
\* scalar or the reference that stands for the value.
RECURSIVE Stored(_, _)
RECURSIVE StoredItems(_, _, _, _)
RECURSIVE StoredItem(_, _, _, _, _)
StoredItems(store, x, i, items) ==
    IF i > Len(x.items)
    THEN [store |-> New(store, x.k) , val |-> Ref(NextAddress(store)), items |-> items]
    ELSE StoredItem(store, x, i, items,
                    Stored(store, IF x.k = "dict" THEN x.items[i].val ELSE x.items[i]))
StoredItem(store, x, i, items, r) ==
    StoredItems(r.store, x, i + 1,
                Append(items, IF x.k = "dict" THEN Item(x.items[i].key, r.val) ELSE r.val))
Filled(r) == [store |-> [r.store EXCEPT !.objs[r.val.at].items = r.items], val |-> r.val]
Stored(store, x) ==
    IF x.k \in {"dict", "list"} THEN Filled(StoredItems(store, x, 1, <<>>))
    ELSE [store |-> store, val |-> x]

\* The value a scalar or a reference stands for.
RECURSIVE ValueOf(_, _)
ValueOf(store, v) ==
    IF ~IsRef(v) THEN v
    ELSE IF TypeAt(store, v) = "dict"
    THEN Dict([i \in 1..Len(ItemsAt(store, v)) |->
                  Item(ItemsAt(store, v)[i].key, ValueOf(store, ItemsAt(store, v)[i].val))])
    ELSE List([i \in 1..Len(ItemsAt(store, v)) |-> ValueOf(store, ItemsAt(store, v)[i])])

RECURSIVE MergeIntoObject(_, _, _)
\* A variant of MergeDictInto that stores the reference to the fragment's
\* dict when the key is new.
MergeDictInto_shares(store, dst, key, val) ==
    IF DictHas(ItemsAt(store, dst), key)
    THEN MergeIntoObject(store, DictGet(ItemsAt(store, dst), key), val)
    ELSE SetItem(store, dst, key, val)
\* mergeProfileCapData on the objects. val is a dict: dst[key] is a new dict
\* when the key is new, and val is merged into dst[key].
MergeDictInto(store, dst, key, val) ==
    IF DictHas(ItemsAt(store, dst), key)
    THEN MergeIntoObject(store, DictGet(ItemsAt(store, dst), key), val)
    ELSE MergeIntoObject(SetItem(New(store, "dict"), dst, key, Ref(NextAddress(store))),
                         Ref(NextAddress(store)), val)
\* list.extend: the list that dst refers to gets the elements of the list
\* src refers to, the same scalars and references.
Extended(store, dst, src) ==
    [store EXCEPT !.objs[dst.at].items = @ \o ItemsAt(store, src)]
\* val is a list: dst[key] is a new list when the key is new, and is
\* extended by the elements of val.
MergeListInto(store, dst, key, val) ==
    IF ~DictHas(ItemsAt(store, dst), key)
    THEN Extended(SetItem(New(store, "list"), dst, key, Ref(NextAddress(store))),
                  Ref(NextAddress(store)), val)
    ELSE IF TypeAt(store, DictGet(ItemsAt(store, dst), key)) # "list"
    THEN Raised(store)
    ELSE Extended(store, DictGet(ItemsAt(store, dst), key), val)
\* val is anything else.
MergeScalarInto(store, dst, key, val) ==
    IF /\ DictHas(ItemsAt(store, dst), key)
       /\ TypeAt(store, DictGet(ItemsAt(store, dst), key)) # TypeAt(store, val)
    THEN Raised(store)
    ELSE SetItem(store, dst, key, val)
\* The loop over src.items() from item i on.
RECURSIVE MergeItemsInto(_, _, _, _)
MergeItemsInto(store, dst, src, i) ==
    IF store.err \/ i > Len(ItemsAt(store, src)) THEN store
    ELSE MergeItemsInto(
            IF TypeAt(store, ItemsAt(store, src)[i].val) = "dict"
            THEN MergeDictInto(store, dst, ItemsAt(store, src)[i].key,
                               ItemsAt(store, src)[i].val)
            ELSE IF TypeAt(store, ItemsAt(store, src)[i].val) = "list"
            THEN MergeListInto(store, dst, ItemsAt(store, src)[i].key,
                               ItemsAt(store, src)[i].val)
            ELSE MergeScalarInto(store, dst, ItemsAt(store, src)[i].key,
                                 ItemsAt(store, src)[i].val),
            dst, src, i + 1)
MergeIntoObject(store, dst, src) ==
    IF store.err THEN store
    ELSE IF TypeAt(store, src) # TypeAt(store, dst) THEN Raised(store)
    ELSE IF TypeAt(store, src) = "dict" THEN MergeItemsInto(store, dst, src, 1)
    ELSE Raised(store)

\* The capabilities object of a document as json.load reads it: a fragment
\* is a dict of the sections it gives.
SectionNames ==
    <<"extensions", "features", "properties", "formats", "queueFamiliesProperties",
      "memoryProperties">>
FragmentValue(frag) ==
    Dict([i \in 1..Len(SelectSeq(SectionNames, LAMBDA n : ~IsAbsent(frag[n]))) |->
            Item(SelectSeq(SectionNames, LAMBDA n : ~IsAbsent(frag[n]))[i],
                 frag[SelectSeq(SectionNames, LAMBDA n : ~IsAbsent(frag[n]))[i]])])
PoolValue(pool) ==
    Dict([i \in 1..Len(pool) |-> Item(pool[i].key, FragmentValue(pool[i].val))])

\* VulkanProfileCapabilities.__init__: the dicts and the list of a new
\* capabilities object, at the next five addresses.
NewCaps(store) ==
    [features |-> Ref(NextAddress(store)), properties |-> Ref(NextAddress(store) + 1),
     formats |-> Ref(NextAddress(store) + 2), memoryProperties |-> Ref(NextAddress(store) + 3),
     queueFamiliesProperties |-> Ref(NextAddress(store) + 4)]
WithNewCaps(store) == New(New(New(New(New(store, "dict"), "dict"), "dict"), "dict"), "list")

\* mergeProfileFeatures and the like: data.get(section) merged into the
\* profile's own dict.
SectionInto(store, caps, data, section) ==
    IF store.err \/ ~DictHas(ItemsAt(store, data), section) THEN store
    ELSE MergeIntoObject(store, caps[section], DictGet(ItemsAt(store, data), section))
\* mergeProfileQueueFamiliesProperties
QueueFamiliesInto(store, caps, data) ==
    IF store.err \/ ~DictHas(ItemsAt(store, data), "queueFamiliesProperties") THEN store
    ELSE IF TypeAt(store, DictGet(ItemsAt(store, data), "queueFamiliesProperties")) # "list"
    THEN Raised(store)
    ELSE Extended(store, caps.queueFamiliesProperties,
                  DictGet(ItemsAt(store, data), "queueFamiliesProperties"))
\* mergeCaps: the extensions are values the resolver copies into its maps,
\* so only whether mergeProfileExtensions raises matters here.
CapsInto(store, reg, caps, data, frag) ==
    IF Failed(mergeProfileExtensions(reg, EmptyCaps, frag)) THEN Raised(store)
    ELSE SectionInto(
            QueueFamiliesInto(
                SectionInto(
                    SectionInto(SectionInto(store, caps, data, "features"),
                                caps, data, "properties"),
                    caps, data, "formats"),
                caps, data),
            caps, data, "memoryProperties")
\* The loop of __init__ over data['capabilities'] from entry i on.
RECURSIVE CapNamesInto(_, _, _, _, _, _, _)
CapNamesInto(store, reg, caps, capNames, pool, caps0, i) ==
    IF store.err \/ i > Len(capNames) THEN store
    ELSE IF ~DictHas(caps0, capNames[i]) THEN Raised(store)
    ELSE CapNamesInto(CapsInto(store, reg, caps,
                               DictGet(ItemsAt(store, pool), capNames[i]),
                               DictGet(caps0, capNames[i])),
                      reg, caps, capNames, pool, caps0, i + 1)

\* parseProfiles on the objects from profile i of the document on: pool
\* refers to the capabilities object; resolved lists the capabilities
\* objects of the profiles registered. The loop ends when a profile raises.
RECURSIVE ProfilesOn(_, _, _, _, _, _)
Registering(store, reg, doc, pool, i, resolved, caps) ==
    IF store.err \/ Failed(VulkanProfile(reg, doc.profiles[i].key, doc.profiles[i].val,
                                         doc.capabilities))
    THEN [store |-> Raised(store), pool |-> pool, resolved |-> resolved]
    ELSE ProfilesOn(store, reg, doc, pool, i + 1,
                    Append(resolved, Item(doc.profiles[i].key, caps)))
ProfilesOn(store, reg, doc, pool, i, resolved) ==
    IF i > Len(doc.profiles) THEN [store |-> store, pool |-> pool, resolved |-> resolved]
    ELSE Registering(CapNamesInto(WithNewCaps(store), reg, NewCaps(store),
                                  doc.profiles[i].val.capabilities, pool, doc.capabilities, 1),
                     reg, doc, pool, i, resolved, NewCaps(store))
OnStored(r, reg, doc) == ProfilesOn(r.store, reg, doc, r.val, 1, <<>>)
\* json.load of a document followed by parseProfiles.
FileObjects(reg, doc) == OnStored(Stored(EmptyStore, PoolValue(doc.capabilities)), reg, doc)

\* ------------------------------------------ properties of the shared objects
\* The file's document was loaded and its profiles resolved, up to the one
\* that raised.
FileAttempted(f) ==
    /\ filenames # <<>>
    /\ \/ Position(f) < next
       \/ Position(f) = next /\ LoadFailed
\* The capabilities a capabilities object stands for.
CapsValue(store, caps) ==
    [s \in DOMAIN caps |->
        IF s = "queueFamiliesProperties" THEN ValueOf(store, caps[s]).items
        ELSE ValueOf(store, caps[s])]
MergedSections(caps) ==
    [s \in {"features", "properties", "formats", "memoryProperties",
            "queueFamiliesProperties"} |-> caps[s]]
\* The document with one of its profiles alone.
Alone(doc, name) ==
    Document(SelectSeq(doc.profiles, LAMBDA p : p.key = name), doc.capabilities)
\* After the profiles of the document, the capabilities object stands for
\* the value json.load read.
PoolUnchanged(r, doc) == ValueOf(r.store, r.pool) = PoolValue(doc.capabilities)
\* Every profile registered holds what the run holds for it, and what it
\* holds when it is the only profile of the document.
SameAsAlone(r, doc) ==
    \A i \in 1..Len(r.resolved) :
        /\ DictHas(profiles, r.resolved[i].key)
        /\ CapsValue(r.store, r.resolved[i].val)
               = MergedSections(DictGet(profiles, r.resolved[i].key).capabilities)
        /\ CapsValue(r.store, r.resolved[i].val)
               = CapsValue(FileObjects(registry, Alone(doc, r.resolved[i].key)).store,
                           FileObjects(registry, Alone(doc, r.resolved[i].key)).resolved[1].val)
\* Two profiles that list the same fragments in the same order hold the
\* same capabilities.
SameFromSameFragments ==
    \A d, e \in Declared :
        (IsResolved(d) /\ IsResolved(e) /\ d[1] = e[1] /\ FragmentsOf(d) = FragmentsOf(e))
            => MergedSections(CapabilitiesOf(d)) = MergedSections(CapabilitiesOf(e))

\* C29: when the profiles of a file have been resolved, or resolving one has
\* raised, every fragment of the file's capabilities object holds what
\* json.load read; every profile registered holds the capabilities it holds
\* when resolved alone, wherever it stands in the file; and two profiles
\* that list the same fragments hold the same capabilities.
C29_FragmentsUnchanged ==
    /\ \A f \in 1..Len(dir) :
        (FileAttempted(f) /\ pc \in {"parseProfiles", "generate_h", "failed"}) =>
            /\ PoolUnchanged(FileObjects(registry, dir[f].val), dir[f].val)
            /\ (\A e \in Defined : e[1] = f => e \in Declared)
                   => SameAsAlone(FileObjects(registry, dir[f].val), dir[f].val)
    /\ SameFromSameFragments
\* Both profiles of a file are resolved from the same two fragments, which
\* give the same member as dicts, the second in the other order than the
\* first.
C29_Witness ==
    /\ pc = "generate_h"
    /\ Len(dir) = 1
    /\ Len(dir[1].val.profiles) = 2
    /\ IsResolved(<<1, 1>>) /\ IsResolved(<<1, 2>>)
    /\ DataOf(<<1, 1>>).capabilities = <<"baseline", "extra">>
    /\ DataOf(<<1, 2>>).capabilities = <<"extra", "baseline">>
    /\ Kind(VGet(VGet(FragmentsOf(<<1, 1>>)[1].properties,
                      "VkPhysicalDeviceSyntheticProperties"), "mStruct")) = "object"
    /\ Kind(VGet(VGet(FragmentsOf(<<1, 1>>)[2].properties,
                      "VkPhysicalDeviceSyntheticProperties"), "mStruct")) = "object"

\* ------------------------------ properties of the extensions that define structs
\* The extensions parsePrerequisites names in the struct's definedByExtensions.
DefinedByExtensions(name) == StructOf(name).definedByExtensions
Recorded(extName) == DictHas(registry.extensions, extName)
\* parseAliases looked up an extension that self.extensions does not hold.
UnrecordedLookup == raised.err = "crash" /\ raised.at = "parseAliases"

\* C30: in a loaded registry every name in the definedByExtensions of every
\* struct is a key of the registry's extensions, the extensions supported by
\* vulkan, and no run ends in parseAliases on the lookup of an extension
\* that is not recorded.
C30_DefiningExtensionsRecorded ==
    /\ RegistryLoaded =>
        \A name \in StructNamesOf(registry) :
            \A i \in 1..Len(DefinedByExtensions(name)) :
                Recorded(DefinedByExtensions(name)[i])
    /\ ~UnrecordedLookup

====
